---- MODULE Spec2Model ----
(***************************************************************************)
(* RoarinAPI Service: the dynamic request handler (routes/dynamic.js), the *)
(* condition evaluator and the template renderer, over the endpoints       *)
(* document and the asset directory kept by config/configManager.js, and   *)
(* the admin routes (routes/admin.js) that write them; config.json, the    *)
(* sessions of plugins/auth.js and the cluster of cluster.js.              *)
(*                                                                         *)
(* Strings are TLA+ strings; TLC applies Len, \o and SubSeq to them, which *)
(* is how the regular-expression replacements of the source are computed   *)
(* character by character.                                                 *)
(***************************************************************************)
EXTENDS Integers, Sequences, FiniteSets, TLC

VARIABLES
  file,    \* data/endpoints.json: Missing, Corrupt or Stored(list)
  assets,  \* the files under data/assets: file name -> bytes
  resp,    \* the last dynamic request and what the handler answered
  adm,     \* what the last admin request was answered
  uuids,   \* how many identifiers crypto.randomUUID() has handed out
  exported, \* the export the operator downloaded last
  config,  \* data/config.json: MissingConfig, CorruptConfig or a stored configuration
  sessions, \* the session map of every worker process: token -> expiresAt
  wallclock, \* Date.now(), in hours
  tokens,  \* how many session tokens generateSessionToken() has handed out
  held,    \* what a worker process has read from a file and not written back yet
  cluster  \* the primary process: its workers and the signal it received

vars == <<file, assets, resp, adm, uuids, exported, config, sessions, wallclock, tokens, held, cluster>>

\* the state of the processes, as opposed to the files
procVars == <<sessions, wallclock, tokens, held, cluster>>

(***************************************************************************)
(* Characters and strings                                                  *)
(***************************************************************************)
Ch(s, i) == SubSeq(s, i, i)

CharsOf(s) == {Ch(s, i) : i \in 1..Len(s)}

LowerLetters == "abcdefghijklmnopqrstuvwxyz"
UpperLetters == "ABCDEFGHIJKLMNOPQRSTUVWXYZ"
Digits == "0123456789"

\* \w of the regular expressions: [A-Za-z0-9_]
WordChars == CharsOf(LowerLetters) \cup CharsOf(UpperLetters) \cup CharsOf(Digits) \cup {"_"}

IsDigitStr(s) == Len(s) > 0 /\ \A i \in 1..Len(s) : Ch(s, i) \in CharsOf(Digits)

\* position of character c in string s, 0 when absent
IndexIn(c, s) ==
  IF \E i \in 1..Len(s) : Ch(s, i) = c
  THEN CHOOSE i \in 1..Len(s) : Ch(s, i) = c /\ \A j \in 1..(i - 1) : Ch(s, j) # c
  ELSE 0

\* String.prototype.toLowerCase on the ASCII letters
LowerCh(c) ==
  IF IndexIn(c, UpperLetters) > 0 THEN Ch(LowerLetters, IndexIn(c, UpperLetters)) ELSE c

RECURSIVE ToLowerCase(_)
ToLowerCase(s) ==
  IF Len(s) = 0 THEN "" ELSE LowerCh(Ch(s, 1)) \o ToLowerCase(SubSeq(s, 2, Len(s)))

\* String.prototype.startsWith, and the same test at position i
StartsWithAt(s, p, i) ==
  i + Len(p) - 1 <= Len(s) /\ SubSeq(s, i, i + Len(p) - 1) = p

StartsWith(s, p) == StartsWithAt(s, p, 1)

\* String.prototype.includes
Includes(s, p) == \E i \in 1..(Len(s) + 1) : StartsWithAt(s, p, i)

\* first position of p in s at or after position i, 0 when there is none
RECURSIVE FindFrom(_, _, _)
FindFrom(s, p, i) ==
  IF i + Len(p) - 1 > Len(s) THEN 0
  ELSE IF StartsWithAt(s, p, i) THEN i
  ELSE FindFrom(s, p, i + 1)

\* end of the longest run of \w characters that starts at position i (i - 1 when empty)
RECURSIVE WordRunEnd(_, _)
WordRunEnd(s, i) ==
  IF i <= Len(s) /\ Ch(s, i) \in WordChars THEN WordRunEnd(s, i + 1) ELSE i - 1

\* decimal text of a natural number, as String(n) gives it
RECURSIVE NatToStr(_)
NatToStr(n) ==
  IF n < 10 THEN Ch(Digits, n + 1) ELSE NatToStr(n \div 10) \o Ch(Digits, (n % 10) + 1)

\* value of a string of decimal digits
RECURSIVE StrToNat(_)
StrToNat(s) ==
  IF Len(s) = 0 THEN 0
  ELSE 10 * StrToNat(SubSeq(s, 1, Len(s) - 1)) + (IndexIn(Ch(s, Len(s)), Digits) - 1)

(***************************************************************************)
(* JavaScript values of a request: t is the type tag, s the text of a      *)
(* string (or the JSON text of an object), n the value of a number.        *)
(***************************************************************************)
Str(s) == [t |-> "str", s |-> s, n |-> 0]
Num(n) == [t |-> "num", s |-> "", n |-> n]
Bool(b) == [t |-> "bool", s |-> "", n |-> IF b THEN 1 ELSE 0]
Undef == [t |-> "undef", s |-> "", n |-> 0]
Null == [t |-> "null", s |-> "", n |-> 0]
NaN == [t |-> "nan", s |-> "", n |-> 0]
Obj(json) == [t |-> "obj", s |-> json, n |-> 0]
Global(name) == [t |-> "global", s |-> name, n |-> 0]
Fn(name) == [t |-> "fn", s |-> name, n |-> 0]

\* an object is a sequence of [k, v] pairs with distinct keys; obj[key]
Get(obj, key) ==
  IF \E i \in 1..Len(obj) : obj[i].k = key
  THEN obj[CHOOSE i \in 1..Len(obj) : obj[i].k = key].v
  ELSE Undef

\* String(v), the coercion String.prototype.replace applies to what a callback returns
ToStr(v) ==
  CASE v.t = "str" -> v.s
    [] v.t = "num" -> NatToStr(v.n)
    [] v.t = "nan" -> "NaN"
    [] v.t = "bool" -> IF v.n = 1 THEN "true" ELSE "false"
    [] v.t = "undef" -> "undefined"
    [] v.t = "null" -> "null"
    [] OTHER -> "[object Object]"

\* ToBoolean
Truthy(v) ==
  CASE v.t = "str" -> v.s # ""
    [] v.t = "num" -> v.n # 0
    [] v.t = "bool" -> v.n = 1
    [] v.t \in {"nan", "undef", "null"} -> FALSE
    [] OTHER -> TRUE

\* JSON.stringify of a string: quotes and backslashes are escaped
RECURSIVE JsonEscape(_)
JsonEscape(s) ==
  IF Len(s) = 0 THEN ""
  ELSE (IF Ch(s, 1) \in {"\"", "\\"} THEN "\\" \o Ch(s, 1) ELSE Ch(s, 1))
       \o JsonEscape(SubSeq(s, 2, Len(s)))

\* JSON.stringify of a value; undefined has no JSON text and stays undefined
JsonOf(v) ==
  CASE v.t = "str" -> "\"" \o JsonEscape(v.s) \o "\""
    [] v.t = "obj" -> v.s
    [] OTHER -> ToStr(v)

RECURSIVE JsonFields(_, _)
JsonFields(obj, i) ==
  IF i > Len(obj) THEN ""
  ELSE (IF i > 1 THEN "," ELSE "") \o "\"" \o JsonEscape(obj[i].k) \o "\":" \o JsonOf(obj[i].v)
       \o JsonFields(obj, i + 1)

\* JSON.stringify(request.body || {})
JsonStringify(obj) == "{" \o JsonFields(obj, 1) \o "}"

(***************************************************************************)
(* Reference substitution: str.replace(/PRE(\w+)SUF/g, callback).          *)
(* The scan goes left to right over s; the text a callback returns is not  *)
(* scanned again by the same replace.  kind names the callback, ctx holds  *)
(* what it closes over: [query, headers, body, params].                    *)
(***************************************************************************)
\* callbacks that return the value as it is, without the empty-string default of the
\* template callbacks; C9_MissingRendersEmpty tells them apart
RefValueAsIs(kind, ctx, key) ==
  CASE kind \in {"cq", "tq"} -> ToStr(Get(ctx.query, key))
    [] kind \in {"ch", "th"} -> ToStr(Get(ctx.headers, ToLowerCase(key)))
    [] kind \in {"cb", "tb"} -> ToStr(Get(ctx.body, key))
    [] kind \in {"cp", "tp"} -> ToStr(Get(ctx.params, key))

\* the callbacks of evaluateCondition ("c.") and of processTemplateString ("t.")
RefValue(kind, ctx, key) ==
  LET quoted(v) == IF v.t = "str" THEN "\"" \o v.s \o "\"" ELSE ToStr(v)
      orEmpty(v) == IF Truthy(v) THEN ToStr(v) ELSE ""
  IN CASE kind = "cq" -> quoted(Get(ctx.query, key))
       [] kind = "ch" -> quoted(Get(ctx.headers, ToLowerCase(key)))
       [] kind = "cb" -> LET v == Get(ctx.body, key)
                         IN IF v.t = "str" THEN "\"" \o v.s \o "\"" ELSE JsonOf(v)
       [] kind = "cp" -> quoted(Get(ctx.params, key))
       [] kind = "tq" -> orEmpty(Get(ctx.query, key))
       [] kind = "th" -> orEmpty(Get(ctx.headers, ToLowerCase(key)))
       [] kind = "tp" -> orEmpty(Get(ctx.params, key))
       [] kind = "tb" -> LET v == Get(ctx.body, key)
                         IN IF v.t \in {"obj", "null"} THEN JsonOf(v) ELSE orEmpty(v)

RECURSIVE ReplaceRefsFrom(_, _, _, _, _, _)
ReplaceRefsFrom(s, i, pre, suf, kind, ctx) ==
  IF i > Len(s) THEN ""
  ELSE LET from == i + Len(pre)
           to == WordRunEnd(s, from)
       IN IF StartsWithAt(s, pre, i) /\ to >= from /\ StartsWithAt(s, suf, to + 1)
          THEN RefValue(kind, ctx, SubSeq(s, from, to))
               \o ReplaceRefsFrom(s, to + 1 + Len(suf), pre, suf, kind, ctx)
          ELSE Ch(s, i) \o ReplaceRefsFrom(s, i + 1, pre, suf, kind, ctx)

ReplaceRefs(s, pre, suf, kind, ctx) == ReplaceRefsFrom(s, 1, pre, suf, kind, ctx)

\* str.replace(/\w+/g, '')
RECURSIVE RemoveWords(_)
RemoveWords(s) ==
  IF Len(s) = 0 THEN ""
  ELSE (IF Ch(s, 1) \in WordChars THEN "" ELSE Ch(s, 1)) \o RemoveWords(SubSeq(s, 2, Len(s)))

\* \s of the safelist; requests and conditions of the model use the space only
Whitespace == {" "}

\* the character class of safePattern: [\s\d"'=!<>&|().]
SafeChars == Whitespace \cup CharsOf(Digits) \cup CharsOf("\"'=!<>&|().")

\* safePattern.test(residual): /^[\s\d"'=!<>&|().]+$/
SafePattern(residual) == Len(residual) > 0 /\ CharsOf(residual) \subseteq SafeChars

\* lines 614-639: the four substitutions, in the order of the source
Substitute(condition, ctx) ==
  LET q == ReplaceRefs(condition, "query.", "", "cq", ctx)
      h == ReplaceRefs(q, "headers.", "", "ch", ctx)
      b == ReplaceRefs(h, "body.", "", "cb", ctx)
  IN ReplaceRefs(b, "params.", "", "cp", ctx)

(***************************************************************************)
(* new Function(`return ${evalCondition}`)(): the JavaScript expressions   *)
(* that can be written with the characters safePattern lets through.       *)
(* Tokens are [k, s]: "str", "num", "id", "p" (punctuator), "bad" (no      *)
(* token: a SyntaxError) and "unk" (JavaScript outside the modelled part). *)
(***************************************************************************)
Tok(k, s) == [k |-> k, s |-> s]

\* punctuators that can be spelled with = ! < > & | ( ) . , longest first
Punct4 == {">>>="}
Punct3 == {"===", "!==", ">>>", "<<=", ">>=", "&&=", "||=", "..."}
Punct2 == {"==", "!=", "<=", ">=", "&&", "||", "<<", ">>", "&=", "|=", "=>"}
Punct1 == {"=", "!", "<", ">", "&", "|", "(", ")", "."}

\* the operators the evaluator below gives a meaning to
ModelledPunct == {"(", ")", ".", "!", "=", "==", "!=", "===", "!==", "<", ">", "<=", ">=", "&&", "||"}

\* reserved words: operators and statements the evaluator does not model
ReservedWords == {"typeof", "void", "delete", "new", "this", "in", "instanceof", "function",
                  "class", "var", "let", "const", "if", "else", "return", "await", "yield",
                  "super", "import", "export", "do", "while", "for", "with", "switch", "case",
                  "throw", "try", "catch", "finally", "debugger", "break", "continue",
                  "default", "extends", "enum"}

\* the longest punctuator at position i
PunctAt(src, i) ==
  LET has(n, set) == i + n - 1 <= Len(src) /\ SubSeq(src, i, i + n - 1) \in set
  IN IF has(4, Punct4) THEN SubSeq(src, i, i + 3)
     ELSE IF has(3, Punct3) THEN SubSeq(src, i, i + 2)
     ELSE IF has(2, Punct2) THEN SubSeq(src, i, i + 1)
     ELSE IF has(1, Punct1) THEN Ch(src, i)
     ELSE ""

\* a word: a decimal integer literal, an identifier, or something not modelled
WordTok(src, i, e) ==
  LET w == SubSeq(src, i, e)
  IN IF Ch(w, 1) \in CharsOf(Digits)
     THEN IF IsDigitStr(w) /\ (Len(w) = 1 \/ Ch(w, 1) # "0") /\ ~StartsWithAt(src, ".", e + 1)
          THEN Tok("num", w) ELSE Tok("unk", w)
     ELSE IF w \in ReservedWords THEN Tok("unk", w) ELSE Tok("id", w)

RECURSIVE Tokenize(_, _)
Tokenize(src, i) ==
  IF i > Len(src) THEN <<>>
  ELSE LET c == Ch(src, i)
       IN IF c \in Whitespace THEN Tokenize(src, i + 1)
          ELSE IF c \in {"\"", "'"}
          THEN LET j == FindFrom(src, c, i + 1)
               IN IF j = 0 THEN <<Tok("bad", c)>>
                  ELSE IF Includes(SubSeq(src, i + 1, j - 1), "\\") THEN <<Tok("unk", "\\")>>
                  ELSE <<Tok("str", SubSeq(src, i + 1, j - 1))>> \o Tokenize(src, j + 1)
          ELSE IF c \in WordChars
          THEN LET e == WordRunEnd(src, i)
               IN <<WordTok(src, i, e)>> \o Tokenize(src, e + 1)
          ELSE LET p == PunctAt(src, i)
               IN IF p = "" THEN <<Tok("unk", c)>>
                  ELSE IF p \notin ModelledPunct THEN <<Tok("unk", p)>>
                  ELSE IF p = "." /\ i < Len(src) /\ Ch(src, i + 1) \in CharsOf(Digits)
                  THEN <<Tok("unk", p)>>
                  ELSE <<Tok("p", p)>> \o Tokenize(src, i + Len(p))

(***************************************************************************)
(* The parser.  Syntax trees are records tagged by k; a parse result is    *)
(* [st, ast, pos]: st is "ok", "syntax" (new Function throws SyntaxError)  *)
(* or "unk" (valid JavaScript the evaluator does not model).               *)
(***************************************************************************)
Lit(v) == [k |-> "lit", v |-> v]
Id(name) == [k |-> "id", name |-> name]
Mem(o, name) == [k |-> "mem", o |-> o, name |-> name]
Call(f, args) == [k |-> "call", f |-> f, args |-> args]
Not(a) == [k |-> "not", a |-> a]
Bin(op, l, r) == [k |-> "bin", op |-> op, l |-> l, r |-> r]

Parsed(ast, pos) == [st |-> "ok", ast |-> ast, pos |-> pos]
NoParse(st, pos) == [st |-> st, ast |-> Lit(Undef), pos |-> pos]

IsP(toks, pos, p) == pos <= Len(toks) /\ toks[pos].k = "p" /\ toks[pos].s = p

\* binary operators by precedence level, loosest first; level 5 is the unary level
LevelOps(lvl) ==
  CASE lvl = 1 -> {"||"}
    [] lvl = 2 -> {"&&"}
    [] lvl = 3 -> {"==", "!=", "===", "!=="}
    [] lvl = 4 -> {"<", ">", "<=", ">="}
    [] OTHER -> {}

RECURSIVE ParseAssign(_, _), ParseLevel(_, _, _), LevelRest(_, _, _, _),
          PostfixRest(_, _, _), ParsePrimary(_, _)

\* what follows a parsed conditional expression r: "=" makes it an assignment target
AssignTail(toks, r) ==
  IF r.st = "ok" /\ IsP(toks, r.pos, "=")
  THEN IF r.ast.k \in {"lit", "bin", "not"} THEN NoParse("syntax", r.pos)
       ELSE NoParse("unk", r.pos)
  ELSE r

\* AssignmentExpression: a conditional expression, or target = expression
ParseAssign(toks, pos) == AssignTail(toks, ParseLevel(toks, pos, 1))

Negated(r) == IF r.st = "ok" THEN Parsed(Not(r.ast), r.pos) ELSE r

LevelTail(toks, l, lvl) == IF l.st = "ok" THEN LevelRest(toks, l.ast, l.pos, lvl) ELSE l

\* a closing parenthesis is due after the parsed r
Closed(toks, r) ==
  IF r.st # "ok" THEN r
  ELSE IF IsP(toks, r.pos, ")") THEN Parsed(r.ast, r.pos + 1)
  ELSE NoParse("syntax", r.pos)

PostfixTail(toks, p) == IF p.st = "ok" THEN PostfixRest(toks, p.ast, p.pos) ELSE p

ParseLevel(toks, pos, lvl) ==
  IF lvl = 5
  THEN IF IsP(toks, pos, "!") THEN Negated(ParseLevel(toks, pos + 1, 5))
       ELSE PostfixTail(toks, ParsePrimary(toks, pos))
  ELSE LevelTail(toks, ParseLevel(toks, pos, lvl + 1), lvl)

\* the right operand r of operator op has been parsed after left
Joined(toks, op, left, r, lvl) ==
  IF r.st = "ok" THEN LevelRest(toks, Bin(op, left, r.ast), r.pos, lvl) ELSE r

\* left-associative chain of the operators of one level
LevelRest(toks, left, pos, lvl) ==
  IF pos <= Len(toks) /\ toks[pos].k = "p" /\ toks[pos].s \in LevelOps(lvl)
  THEN Joined(toks, toks[pos].s, left, ParseLevel(toks, pos + 1, lvl + 1), lvl)
  ELSE Parsed(left, pos)

\* the argument a of a call of callee has been parsed
Called(toks, callee, a) ==
  IF a.st # "ok" THEN a ELSE PostfixRest(toks, Call(callee, <<a.ast>>), a.pos)

\* member accesses and calls; a call has no argument or one (no comma passes the safelist)
PostfixRest(toks, ast, pos) ==
  IF IsP(toks, pos, ".")
  THEN IF pos + 1 <= Len(toks) /\ toks[pos + 1].k = "id"
       THEN PostfixRest(toks, Mem(ast, toks[pos + 1].s), pos + 2)
       ELSE NoParse("syntax", pos + 1)
  ELSE IF IsP(toks, pos, "(")
  THEN IF IsP(toks, pos + 1, ")") THEN PostfixRest(toks, Call(ast, <<>>), pos + 2)
       ELSE Called(toks, ast, Closed(toks, ParseAssign(toks, pos + 1)))
  ELSE Parsed(ast, pos)

ParsePrimary(toks, pos) ==
  IF pos > Len(toks) THEN NoParse("syntax", pos)
  ELSE CASE toks[pos].k = "str" -> Parsed(Lit(Str(toks[pos].s)), pos + 1)
         [] toks[pos].k = "num" -> Parsed(Lit(Num(StrToNat(toks[pos].s))), pos + 1)
         [] toks[pos].k = "id" -> Parsed(Id(toks[pos].s), pos + 1)
         [] toks[pos].k = "p" /\ toks[pos].s = "(" -> Closed(toks, ParseAssign(toks, pos + 1))
         [] OTHER -> NoParse("syntax", pos)

\* the whole token list must have been consumed
Complete(toks, r) == IF r.st = "ok" /\ r.pos <= Len(toks) THEN NoParse("syntax", r.pos) ELSE r

ParseTokens(toks) ==
  IF \E i \in 1..Len(toks) : toks[i].k = "unk" THEN NoParse("unk", 0)
  ELSE IF \E i \in 1..Len(toks) : toks[i].k = "bad" THEN NoParse("syntax", 0)
  ELSE IF Len(toks) = 0 THEN Parsed(Lit(Undef), 1)
  ELSE Complete(toks, ParseAssign(toks, 1))

\* the body "return <src>": no token at all returns undefined
ParseProgram(src) == ParseTokens(Tokenize(src, 1))

(***************************************************************************)
(* The evaluator.  A result is [o, v]: o is "val" (v is the value),        *)
(* "throw" (a ReferenceError or TypeError), "exit" (process.exit() ran:    *)
(* the worker process is gone) or "unk" (not modelled).                    *)
(***************************************************************************)
Val(v) == [o |-> "val", v |-> v]
Outcome(o) == [o |-> o, v |-> Undef]

\* the characters an evaluated expression can hold (the safelist and \w), in code-unit order
CodeOrder == " !\"&'()." \o Digits \o "<=>" \o UpperLetters \o "_" \o LowerLetters \o "|"

\* String.prototype.trim on the spaces
RECURSIVE Trim(_)
Trim(s) ==
  IF Len(s) > 0 /\ Ch(s, 1) \in Whitespace THEN Trim(SubSeq(s, 2, Len(s)))
  ELSE IF Len(s) > 0 /\ Ch(s, Len(s)) \in Whitespace THEN Trim(SubSeq(s, 1, Len(s) - 1))
  ELSE s

\* ToNumber; text that is a number other than a decimal integer is not modelled
ToNumber(v) ==
  CASE v.t \in {"num", "nan"} -> Val(v)
    [] v.t = "bool" -> Val(Num(v.n))
    [] v.t = "null" -> Val(Num(0))
    [] v.t = "undef" -> Val(NaN)
    [] v.t = "str" ->
         LET w == Trim(v.s)
         IN IF w = "" THEN Val(Num(0))
            ELSE IF IsDigitStr(w) THEN Val(Num(StrToNat(w)))
            ELSE IF Ch(w, 1) \in CharsOf(Digits) \/ Includes(w, ".") \/ w = "Infinity"
            THEN Outcome("unk")
            ELSE Val(NaN)
    [] OTHER -> Outcome("unk")

\* a < b on strings: the first differing code unit decides, a proper prefix is smaller
RECURSIVE StrLess(_, _)
StrLess(a, b) ==
  IF Len(b) = 0 THEN FALSE
  ELSE IF Len(a) = 0 THEN TRUE
  ELSE IF Ch(a, 1) = Ch(b, 1) THEN StrLess(SubSeq(a, 2, Len(a)), SubSeq(b, 2, Len(b)))
  ELSE IndexIn(Ch(a, 1), CodeOrder) < IndexIn(Ch(b, 1), CodeOrder)

Primitive(v) == v.t \in {"str", "num", "nan", "bool", "undef", "null"}

\* a === b
StrictEq(a, b) == a.t = b.t /\ a.t # "nan" /\ a = b

\* a == b
LooseEq(a, b) ==
  IF a.t = b.t THEN Val(Bool(StrictEq(a, b)))
  ELSE IF a.t \in {"undef", "null"} \/ b.t \in {"undef", "null"}
  THEN Val(Bool(a.t \in {"undef", "null"} /\ b.t \in {"undef", "null"}))
  ELSE IF Primitive(a) /\ Primitive(b)
  THEN LET x == ToNumber(a)
           y == ToNumber(b)
       IN IF x.o # "val" THEN x ELSE IF y.o # "val" THEN y
          ELSE Val(Bool(x.v.t = "num" /\ y.v.t = "num" /\ x.v.n = y.v.n))
  ELSE Outcome("unk")

\* a < b
LessThan(a, b) ==
  IF a.t = "str" /\ b.t = "str" THEN Val(Bool(StrLess(a.s, b.s)))
  ELSE LET x == ToNumber(a)
           y == ToNumber(b)
       IN IF x.o # "val" THEN x ELSE IF y.o # "val" THEN y
          ELSE Val(Bool(x.v.t = "num" /\ y.v.t = "num" /\ x.v.n < y.v.n))

\* a <= b is a < b or a == b on the same conversions (never !(b < a): NaN compares false)
LessEq(a, b) ==
  IF a.t = "str" /\ b.t = "str" THEN Val(Bool(a.s = b.s \/ StrLess(a.s, b.s)))
  ELSE LET x == ToNumber(a)
           y == ToNumber(b)
       IN IF x.o # "val" THEN x ELSE IF y.o # "val" THEN y
          ELSE Val(Bool(x.v.t = "num" /\ y.v.t = "num" /\ x.v.n <= y.v.n))

Negate(r) == IF r.o = "val" THEN Val(Bool(~Truthy(r.v))) ELSE r

Compare(op, a, b) ==
  CASE op = "==" -> LooseEq(a, b)
    [] op = "!=" -> Negate(LooseEq(a, b))
    [] op = "===" -> Val(Bool(StrictEq(a, b)))
    [] op = "!==" -> Val(Bool(~StrictEq(a, b)))
    [] op = "<" -> LessThan(a, b)
    [] op = ">" -> LessThan(b, a)
    [] op = "<=" -> LessEq(a, b)
    [] op = ">=" -> LessEq(b, a)

\* global names of Node.js other than process: they resolve, to objects not modelled
OtherGlobals == {"globalThis", "global", "console", "Object", "Function", "Array", "String",
                 "Number", "Boolean", "Symbol", "Math", "JSON", "Date", "RegExp", "Error",
                 "Map", "Set", "Promise", "Buffer", "Infinity", "eval", "isNaN", "parseInt",
                 "parseFloat", "setTimeout", "setInterval", "setImmediate", "queueMicrotask",
                 "fetch", "URL", "escape", "unescape"}

\* an identifier in the global scope new Function compiles in
Resolve(name) ==
  CASE name = "true" -> Val(Bool(TRUE))
    [] name = "false" -> Val(Bool(FALSE))
    [] name = "null" -> Val(Null)
    [] name = "undefined" -> Val(Undef)
    [] name = "NaN" -> Val(NaN)
    [] name = "process" -> Val(Global("process"))
    [] name \in OtherGlobals -> Outcome("unk")
    [] OTHER -> Outcome("throw")

\* obj.name for an evaluated obj
Member(o, name) ==
  IF o.o # "val" THEN o
  ELSE IF o.v.t \in {"undef", "null"} THEN Outcome("throw")
  ELSE IF o.v = Global("process") /\ name = "exit" THEN Val(Fn("process.exit"))
  ELSE Outcome("unk")

\* f(a): callee and argument are evaluated before the call is attempted
Invoke(f, a) ==
  IF f.o # "val" THEN f
  ELSE IF a.o # "val" THEN a
  ELSE IF f.v = Fn("process.exit") THEN Outcome("exit")
  ELSE IF Primitive(f.v) THEN Outcome("throw")
  ELSE Outcome("unk")

\* a comparison of two evaluated operands
Compared(op, l, r) ==
  IF l.o # "val" THEN l ELSE IF r.o # "val" THEN r ELSE Compare(op, l.v, r.v)

RECURSIVE Eval(_)

\* l && ast and l || ast for an evaluated l: ast is evaluated only when l does not decide
ShortCircuit(op, l, ast) ==
  IF l.o # "val" THEN l
  ELSE IF Truthy(l.v) = (op = "&&") THEN Eval(ast)
  ELSE l

Eval(ast) ==
  CASE ast.k = "lit" -> Val(ast.v)
    [] ast.k = "id" -> Resolve(ast.name)
    [] ast.k = "not" -> Negate(Eval(ast.a))
    [] ast.k = "mem" -> Member(Eval(ast.o), ast.name)
    [] ast.k = "call" ->
         Invoke(Eval(ast.f), IF Len(ast.args) = 0 THEN Val(Undef) ELSE Eval(ast.args[1]))
    [] ast.k = "bin" /\ ast.op \in {"&&", "||"} -> ShortCircuit(ast.op, Eval(ast.l), ast.r)
    [] ast.k = "bin" -> Compared(ast.op, Eval(ast.l), Eval(ast.r))

\* what the if of line 516 sees of an evaluation: "true", "false", "exit" or "unk"
Verdict(r) ==
  CASE r.o = "val" -> IF Truthy(r.v) THEN "true" ELSE "false"
    [] r.o = "throw" -> "false"
    [] OTHER -> r.o

Compiled(p) ==
  CASE p.st = "syntax" -> "false"
    [] p.st = "unk" -> "unk"
    [] OTHER -> Verdict(Eval(p.ast))

\* new Function(`return ${src}`)() inside the try of lines 647-651
RunFunction(src) == Compiled(ParseProgram(src))

(***************************************************************************)
(* processTemplateString: ten String.prototype.replace calls in a chain,   *)
(* each over the whole result of the one before.                           *)
(***************************************************************************)
\* the replacement patterns of a replacement given as a string: $$, $& and $'
\* (the pattern of the text before the match needs a character TLA+ strings lack)
RECURSIVE Expand(_, _, _)
Expand(rep, match, after) ==
  IF Len(rep) = 0 THEN ""
  ELSE IF StartsWith(rep, "$$") THEN "$" \o Expand(SubSeq(rep, 3, Len(rep)), match, after)
  ELSE IF StartsWith(rep, "$&") THEN match \o Expand(SubSeq(rep, 3, Len(rep)), match, after)
  ELSE IF StartsWith(rep, "$'") THEN after \o Expand(SubSeq(rep, 3, Len(rep)), match, after)
  ELSE Ch(rep, 1) \o Expand(SubSeq(rep, 2, Len(rep)), match, after)

\* str.replace(/pat/g, rep) for a pattern without metacharacters and a string rep
RECURSIVE ReplaceAllFrom(_, _, _, _)
ReplaceAllFrom(s, i, pat, rep) ==
  IF i > Len(s) THEN ""
  ELSE IF StartsWithAt(s, pat, i)
  THEN Expand(rep, pat, SubSeq(s, i + Len(pat), Len(s)))
       \o ReplaceAllFrom(s, i + Len(pat), pat, rep)
  ELSE Ch(s, i) \o ReplaceAllFrom(s, i + 1, pat, rep)

ReplaceAll(s, pat, rep) == ReplaceAllFrom(s, 1, pat, rep)

\* iso.split('T')[0] and iso.split('T')[1] of an ISO-8601 instant
DatePart(iso) == SubSeq(iso, 1, FindFrom(iso, "T", 1) - 1)
TimePart(iso) == SubSeq(iso, FindFrom(iso, "T", 1) + 1, Len(iso))

\* request.clock holds the three readings of new Date() of lines 680-682
processTemplateString(str, params, request) ==
  LET ctx == [query |-> request.query, headers |-> request.headers,
              body |-> request.body, params |-> params]
      s1 == ReplaceAll(str, "{{timestamp}}", request.clock[1])
      s2 == ReplaceAll(s1, "{{date}}", DatePart(request.clock[2]))
      s3 == ReplaceAll(s2, "{{time}}", TimePart(request.clock[3]))
      s4 == ReplaceAll(s3, "{{method}}", request.method)
      s5 == ReplaceAll(s4, "{{path}}", request.url)
      s6 == ReplaceAll(s5, "{{body}}", JsonStringify(request.body))
      s7 == ReplaceRefs(s6, "{{query.", "}}", "tq", ctx)
      s8 == ReplaceRefs(s7, "{{headers.", "}}", "th", ctx)
      s9 == ReplaceRefs(s8, "{{params.", "}}", "tp", ctx)
  IN ReplaceRefs(s9, "{{body.", "}}", "tb", ctx)

(***************************************************************************)
(* Payloads.  A JSON tree is [j, s, items, v]: j is "str" (s), "arr"       *)
(* (items), "obj" (items are [k, v] pairs) or "other" (v: a number, a      *)
(* boolean, null, or undefined for an absent field).                       *)
(***************************************************************************)
JStr(s) == [j |-> "str", s |-> s, items |-> <<>>, v |-> Undef]
JArr(items) == [j |-> "arr", s |-> "", items |-> items, v |-> Undef]
JObj(fields) == [j |-> "obj", s |-> "", items |-> fields, v |-> Undef]
JOther(v) == [j |-> "other", s |-> "", items |-> <<>>, v |-> v]
JAbsent == JOther(Undef)

RECURSIVE processTemplateVariables(_, _, _)
processTemplateVariables(data, params, request) ==
  CASE data.j = "str" -> JStr(processTemplateString(data.s, params, request))
    [] data.j = "arr" ->
         JArr([i \in 1..Len(data.items) |->
                 processTemplateVariables(data.items[i], params, request)])
    [] data.j = "obj" ->
         JObj([i \in 1..Len(data.items) |->
                 [k |-> data.items[i].k,
                  v |-> processTemplateVariables(data.items[i].v, params, request)]])
    [] OTHER -> data

\* ToBoolean of a payload field
JTruthy(d) == IF d.j = "str" THEN d.s # "" ELSE IF d.j = "other" THEN Truthy(d.v) ELSE TRUE

\* String(x) of a payload field; an array joins its elements with commas
RECURSIVE JToString(_), JJoin(_, _)
JToString(d) ==
  CASE d.j = "str" -> d.s
    [] d.j = "arr" -> JJoin(d.items, 1)
    [] d.j = "obj" -> "[object Object]"
    [] OTHER -> ToStr(d.v)

JJoin(items, i) ==
  IF i > Len(items) THEN ""
  ELSE (IF i > 1 THEN "," ELSE "")
       \o (IF items[i].j = "other" /\ items[i].v.t \in {"undef", "null"} THEN ""
           ELSE JToString(items[i]))
       \o JJoin(items, i + 1)

(***************************************************************************)
(* The endpoints document (config/configManager.js)                        *)
(***************************************************************************)
\* a response rule; "" stands for a field that is null, absent or empty (all falsy)
Rule(condition, data) ==
  [condition |-> condition, data |-> data, text |-> "", assetPath |-> "", assetId |-> "",
   base64 |-> "", contentType |-> "", fileName |-> "", redirectUrl |-> "", url |-> ""]

Param(name, required) == [name |-> name, required |-> required]

Endpoint(id, path, method, protected, token, parameterSource, parameters, responseType, responses, enabled) ==
  [id |-> id, path |-> path, method |-> method, protected |-> protected, token |-> token,
   parameterSource |-> parameterSource, parameters |-> parameters,
   responseType |-> responseType, responses |-> responses, enabled |-> enabled]

\* defaultEndpoints (the car list is cut to its first two entries)
defaultEndpoints ==
  << Endpoint("id-ping", "/ping", "GET", FALSE, Null, "none", <<>>, "json",
              <<Rule("", JObj(<<[k |-> "message", v |-> JStr("pong")]>>))>>, TRUE),
     Endpoint("id-status", "/status", "GET", FALSE, Null, "none", <<>>, "json",
              <<Rule("", JObj(<<[k |-> "status", v |-> JStr("ok")],
                                [k |-> "time", v |-> JStr("{{timestamp}}")]>>))>>, TRUE),
     Endpoint("id-carlist", "/carlist", "GET", TRUE, Str("let-th3PenguinR0ar!"), "none", <<>>,
              "json",
              <<Rule("", JArr(<<JObj(<<[k |-> "manufacturer", v |-> JStr("Ford")],
                                       [k |-> "model", v |-> JStr("Mustang GT500")]>>),
                                JObj(<<[k |-> "manufacturer", v |-> JStr("Koenigsegg")],
                                       [k |-> "model", v |-> JStr("Agera R")]>>)>>))>>, TRUE),
     Endpoint("id-echo", "/echo", "POST", TRUE, Str("let-th3PenguinR0ar!"), "body", <<>>,
              "json",
              <<Rule("", JObj(<<[k |-> "echo", v |-> JStr("{{body}}")]>>))>>, TRUE) >>

\* data/endpoints.json: absent, not parseable as JSON, or holding a list of endpoints
Missing == [state |-> "missing", list |-> <<>>]
Corrupt == [state |-> "corrupt", list |-> <<>>]
Stored(list) == [state |-> "ok", list |-> list]

\* a loader that answers with the list the process started with and never looks at the
\* document again; C15_ReadsLastWrite tells it apart
loadEndpointsOnce(doc) == [list |-> defaultEndpoints, file |-> doc]

\* a loader that also replaces an unreadable document by the defaults;
\* C16_WritesOnlyMissing tells it apart
loadEndpointsRepairing(doc) ==
  IF doc.state = "ok" THEN [list |-> doc.list, file |-> doc]
  ELSE [list |-> defaultEndpoints, file |-> Stored(defaultEndpoints)]

\* loadEndpoints: [list, file]: what it returns and what endpoints.json holds afterwards.
\* A missing document is created from the defaults; an unreadable one is left as it is.
loadEndpoints(doc) ==
  IF doc.state = "missing" THEN [list |-> defaultEndpoints, file |-> Stored(defaultEndpoints)]
  ELSE IF doc.state = "corrupt" THEN [list |-> defaultEndpoints, file |-> doc]
  ELSE [list |-> doc.list, file |-> doc]

(***************************************************************************)
(* The dynamic handler (routes/dynamic.js), stage by stage                 *)
(***************************************************************************)
\* request.url.split('?')[0]
RequestPath(url) ==
  LET q == FindFrom(url, "?", 1) IN IF q = 0 THEN url ELSE SubSeq(url, 1, q - 1)

\* line 431
SkipAdmin(requestPath) ==
  StartsWith(requestPath, "/admin") \/ StartsWith(requestPath, "/api/admin")
    \/ requestPath = "/health"

\* a matcher that forgets the enabled flag; C1_FirstMatchWins tells it apart
MatchesDisabledToo(e, requestPath, method) ==
  e.path = requestPath /\ (e.method = method \/ e.method = "ANY")

\* the predicate of endpoints.find, lines 438-442
Matches(e, requestPath, method) ==
  e.enabled /\ e.path = requestPath /\ (e.method = method \/ e.method = "ANY")

\* endpoints.find: position of the first match, 0 for undefined
FindEndpoint(endpoints, requestPath, method) ==
  IF \E i \in 1..Len(endpoints) : Matches(endpoints[i], requestPath, method)
  THEN CHOOSE i \in 1..Len(endpoints) :
         /\ Matches(endpoints[i], requestPath, method)
         /\ \A j \in 1..(i - 1) : ~Matches(endpoints[j], requestPath, method)
  ELSE 0

\* authHeader.replace('Bearer ', ''): the first occurrence, wherever it is
StripBearer(authHeader) ==
  LET i == FindFrom(authHeader, "Bearer ", 1)
  IN IF i = 0 THEN authHeader
     ELSE SubSeq(authHeader, 1, i - 1) \o SubSeq(authHeader, i + 7, Len(authHeader))

\* a guard that lets a request without Authorization header through;
\* C2_BadTokenIs401 tells it apart
AccessGuardHeaderOnly(endpoint, request) ==
  IF endpoint.protected /\ Truthy(Get(request.headers, "authorization"))
       /\ Str(StripBearer(Get(request.headers, "authorization").s)) # endpoint.token
  THEN "Invalid token"
  ELSE ""

\* lines 449-459: "" when the request may pass, else the error of the 401
AccessGuard(endpoint, request) ==
  LET authHeader == Get(request.headers, "authorization")
  IN IF ~endpoint.protected THEN ""
     ELSE IF ~Truthy(authHeader) THEN "Authorization required"
     ELSE IF Str(StripBearer(authHeader.s)) # endpoint.token THEN "Invalid token"
     ELSE ""

\* lines 462-483; the mixed view is an object of three objects
CollectParams(endpoint, request) ==
  CASE endpoint.parameterSource = "query" -> request.query
    [] endpoint.parameterSource = "header" -> request.headers
    [] endpoint.parameterSource = "body" -> request.body
    [] endpoint.parameterSource = "mixed" ->
         << [k |-> "query", v |-> Obj(JsonStringify(request.query))],
            [k |-> "headers", v |-> Obj(JsonStringify(request.headers))],
            [k |-> "body", v |-> Obj(JsonStringify(request.body))] >>
    [] OTHER -> <<>>

\* lines 489-496: the value validation looks at
ParamValue(endpoint, request, name) ==
  LET q == Get(request.query, name)
      h == Get(request.headers, ToLowerCase(name))
      b == Get(request.body, name)
  IN CASE endpoint.parameterSource = "mixed" ->
            IF Truthy(q) THEN q ELSE IF Truthy(h) THEN h ELSE b
       [] endpoint.parameterSource = "header" ->
            Get(CollectParams(endpoint, request), ToLowerCase(name))
       [] OTHER -> Get(CollectParams(endpoint, request), name)

\* a test that takes the empty string for a value; C3_NamesFirstMissing tells it apart
IsMissingNullish(value) == value.t \in {"undef", "null"}

\* line 498
IsMissing(value) == value.t \in {"undef", "null"} \/ value = Str("")

\* lines 486-506: position of the parameter the 400 names, 0 when validation passes
ValidateParams(endpoint, request) ==
  LET ps == endpoint.parameters
      bad(i) == ps[i].required /\ IsMissing(ParamValue(endpoint, request, ps[i].name))
  IN IF \E i \in 1..Len(ps) : bad(i)
     THEN CHOOSE i \in 1..Len(ps) : bad(i) /\ \A j \in 1..(i - 1) : ~bad(j)
     ELSE 0

\* lines 641-651 on the text after substitution: [expr, run, out].  run tells whether
\* the text reached new Function, out is "throw" (Invalid condition, caught at line
\* 520), "true" or "false" (what the if of line 516 sees), "exit" or "unk"
SafeEvaluate(evalCondition) ==
  IF ~SafePattern(RemoveWords(evalCondition))
  THEN [expr |-> evalCondition, run |-> FALSE, out |-> "throw"]
  ELSE [expr |-> evalCondition, run |-> TRUE, out |-> RunFunction(evalCondition)]

evaluateCondition(condition, params, request) ==
  SafeEvaluate(Substitute(condition, [query |-> request.query, headers |-> request.headers,
                                      body |-> request.body, params |-> params]))

RECURSIVE EvaluateRules(_, _, _, _)

\* rule i has been evaluated to e: a truthy result breaks the loop
NextRule(responses, i, params, request, e) ==
  <<[rule |-> i, expr |-> e.expr, run |-> e.run, out |-> e.out]>>
    \o (IF e.out \in {"true", "exit", "unk"} THEN <<>>
        ELSE EvaluateRules(responses, i + 1, params, request))

\* the loop of lines 513-524 from rule i on: the evaluations made, in order; it ends
\* with the first one that is truthy (break) or that ends the process
EvaluateRules(responses, i, params, request) ==
  IF i > Len(responses) THEN <<>>
  ELSE IF responses[i].condition = "" THEN EvaluateRules(responses, i + 1, params, request)
  ELSE NextRule(responses, i, params, request,
                evaluateCondition(responses[i].condition, params, request))

\* line 528: endpoint.responses.find(r => !r.condition) || endpoint.responses[0]
DefaultRule(responses) ==
  IF \E i \in 1..Len(responses) : responses[i].condition = ""
  THEN CHOOSE i \in 1..Len(responses) :
         responses[i].condition = "" /\ \A j \in 1..(i - 1) : responses[j].condition # ""
  ELSE 1

\* lines 509-530: position of responseData in endpoint.responses, 0 for null
SelectRule(responses, evals) ==
  IF Len(responses) = 0 THEN 0
  ELSE IF Len(evals) > 0 /\ evals[Len(evals)].out = "true" THEN evals[Len(evals)].rule
  ELSE DefaultRule(responses)

(***************************************************************************)
(* Files: a path is the sequence of its segments below the file system     *)
(* root; the data directory is /data.                                      *)
(***************************************************************************)
ASSETS_DIR == <<"data", "assets">>

\* the segments of a path text between its slashes
RECURSIVE Segments(_)
Segments(p) ==
  LET i == FindFrom(p, "/", 1)
  IN IF i = 0 THEN <<p>> ELSE <<SubSeq(p, 1, i - 1)>> \o Segments(SubSeq(p, i + 1, Len(p)))

\* path.join(dir, rel): rel is appended and the result normalized
RECURSIVE Normalize(_, _)
Normalize(dir, segs) ==
  IF Len(segs) = 0 THEN dir
  ELSE IF Head(segs) \in {"", "."} THEN Normalize(dir, Tail(segs))
  ELSE IF Head(segs) = ".."
  THEN Normalize(IF Len(dir) = 0 THEN dir ELSE SubSeq(dir, 1, Len(dir) - 1), Tail(segs))
  ELSE Normalize(Append(dir, Head(segs)), Tail(segs))

PathJoin(dir, rel) == Normalize(dir, Segments(rel))

\* the regular files and the directories that exist
FilesOnDisk(doc, assetNames) ==
  {Append(ASSETS_DIR, a) : a \in assetNames} \cup {<<"data", "config.json">>}
    \cup (IF doc.state = "missing" THEN {} ELSE {<<"data", "endpoints.json">>})

Directories == {<<>>, <<"data">>, ASSETS_DIR}

\* path.extname of a file name, lower-cased
ExtName(name) ==
  LET dots == {i \in 2..Len(name) : Ch(name, i) = "."}
  IN IF dots = {} THEN ""
     ELSE ToLowerCase(SubSeq(name, CHOOSE i \in dots : \A j \in dots : j <= i, Len(name)))

\* the contentTypes table of lines 571-581
ContentTypeOf(ext) ==
  CASE ext = ".png" -> "image/png"
    [] ext \in {".jpg", ".jpeg"} -> "image/jpeg"
    [] ext = ".gif" -> "image/gif"
    [] ext = ".webp" -> "image/webp"
    [] ext = ".svg" -> "image/svg+xml"
    [] ext = ".pdf" -> "application/pdf"
    [] ext = ".zip" -> "application/zip"
    [] OTHER -> "application/octet-stream"

\* getAsset: files.find(f => f.startsWith(assetId)) over the directory listing, taken
\* in name order; "" for null
getAsset(assetNames, assetId) ==
  LET hits == {f \in assetNames : StartsWith(f, assetId)}
  IN IF hits = {} THEN ""
     ELSE CHOOSE f \in hits : \A g \in hits : g = f \/ StrLess(f, g)

(***************************************************************************)
(* Bytes are numbers in 0..255, a buffer is a sequence of them.            *)
(***************************************************************************)
Base64Alphabet == UpperLetters \o LowerLetters \o Digits \o "+/"

\* the 6-bit value of a base64 character (the URL-safe - and _ included), -1 for a
\* character that carries none
Sextet(c) ==
  IF IndexIn(c, Base64Alphabet) > 0 THEN IndexIn(c, Base64Alphabet) - 1
  ELSE IF c = "-" THEN 62 ELSE IF c = "_" THEN 63 ELSE -1

\* the values of the characters of s up to the first "=", the others skipped
RECURSIVE Sextets(_)
Sextets(s) ==
  IF Len(s) = 0 \/ Ch(s, 1) = "=" THEN <<>>
  ELSE IF Sextet(Ch(s, 1)) < 0 THEN Sextets(SubSeq(s, 2, Len(s)))
  ELSE <<Sextet(Ch(s, 1))>> \o Sextets(SubSeq(s, 2, Len(s)))

RECURSIVE SextetsToBytes(_)
SextetsToBytes(v) ==
  IF Len(v) < 2 THEN <<>>
  ELSE IF Len(v) = 2 THEN <<v[1] * 4 + v[2] \div 16>>
  ELSE IF Len(v) = 3 THEN <<v[1] * 4 + v[2] \div 16, (v[2] % 16) * 16 + v[3] \div 4>>
  ELSE <<v[1] * 4 + v[2] \div 16, (v[2] % 16) * 16 + v[3] \div 4, (v[3] % 4) * 64 + v[4]>>
         \o SextetsToBytes(SubSeq(v, 5, Len(v)))

\* Buffer.from(text, 'base64')
Base64Decode(text) == SextetsToBytes(Sextets(text))

\* buffer.toString('base64')
RECURSIVE Base64Encode(_)
Base64Encode(b) ==
  IF Len(b) = 0 THEN ""
  ELSE IF Len(b) = 1
  THEN Ch(Base64Alphabet, b[1] \div 4 + 1) \o Ch(Base64Alphabet, (b[1] % 4) * 16 + 1) \o "=="
  ELSE IF Len(b) = 2
  THEN Ch(Base64Alphabet, b[1] \div 4 + 1)
         \o Ch(Base64Alphabet, (b[1] % 4) * 16 + b[2] \div 16 + 1)
         \o Ch(Base64Alphabet, (b[2] % 16) * 4 + 1) \o "="
  ELSE Ch(Base64Alphabet, b[1] \div 4 + 1)
         \o Ch(Base64Alphabet, (b[1] % 4) * 16 + b[2] \div 16 + 1)
         \o Ch(Base64Alphabet, (b[2] % 16) * 4 + b[3] \div 64 + 1)
         \o Ch(Base64Alphabet, (b[3] % 64) + 1)
         \o Base64Encode(SubSeq(b, 4, Len(b)))

(***************************************************************************)
(* The reply.  status 0 means that no reply was sent: the worker process   *)
(* ended while it evaluated a condition.  stage names the part of the      *)
(* handler that sent the reply.                                            *)
(***************************************************************************)
NoBytes == [src |-> "none", of |-> <<>>, data |-> <<>>]

\* fs.readFileSync of a regular file.  data is what an asset file holds; the text of the
\* two JSON documents of the data directory is not spelled out, of names the file.
ReadFile(fullPath, assetFiles) ==
  [src |-> "file", of |-> fullPath,
   data |-> IF Len(fullPath) = 3 /\ SubSeq(fullPath, 1, 2) = ASSETS_DIR
            THEN assetFiles[fullPath[3]] ELSE <<>>]

BlankReply(request) ==
  [req |-> request, status |-> 0, stage |-> "none", endpoint |-> 0, rule |-> 0,
   evals |-> <<>>, error |-> "", source |-> "", body |-> JAbsent, ctype |-> "",
   disposition |-> "", location |-> "", bytes |-> NoBytes]

\* lines 547-590: the binary and image branch of the switch
SendBinary(base, responseData, doc, assetFiles) ==
  LET assetFullPath == PathJoin(ASSETS_DIR, responseData.assetPath)
      asset == getAsset(DOMAIN assetFiles, responseData.assetId)
      ctype == IF responseData.contentType # "" THEN responseData.contentType
               ELSE "application/octet-stream"
  IN IF responseData.assetPath # ""
     THEN IF assetFullPath \notin FilesOnDisk(doc, DOMAIN assetFiles) \cup Directories
          THEN [base EXCEPT !.status = 404, !.error = "Asset file not found"]
          ELSE IF assetFullPath \in Directories
          THEN [base EXCEPT !.status = 500, !.error = "EISDIR"]
          ELSE [base EXCEPT !.status = 200, !.ctype = ctype,
                            !.disposition = IF responseData.fileName # ""
                                            THEN "inline; filename=\"" \o responseData.fileName \o "\""
                                            ELSE "",
                            !.bytes = ReadFile(assetFullPath, assetFiles)]
     ELSE IF responseData.assetId # ""
     THEN IF asset = ""
          THEN [base EXCEPT !.status = 404, !.error = "Asset not found"]
          ELSE [base EXCEPT !.status = 200, !.ctype = ContentTypeOf(ExtName(asset)),
                            !.bytes = ReadFile(Append(ASSETS_DIR, asset), assetFiles)]
     ELSE IF responseData.base64 # ""
     THEN [base EXCEPT !.status = 200, !.ctype = ctype,
                       !.bytes = [src |-> "base64", of |-> <<>>,
                                  data |-> Base64Decode(responseData.base64)]]
     ELSE [base EXCEPT !.status = 500, !.error = "Binary response not configured properly"]

\* lines 536-597: the switch on endpoint.responseType
Dispatch(base, endpoint, responseData, params, request, doc, assetFiles) ==
  CASE endpoint.responseType = "json" ->
         [base EXCEPT !.status = 200,
                      !.body = processTemplateVariables(responseData.data, params, request)]
    [] endpoint.responseType = "text" ->
         LET textResponse == IF responseData.text # "" THEN responseData.text
                             ELSE IF JTruthy(responseData.data) THEN JToString(responseData.data)
                             ELSE ""
         IN [base EXCEPT !.status = 200, !.ctype = "text/plain",
                         !.body = JStr(processTemplateString(textResponse, params, request))]
    [] endpoint.responseType \in {"binary", "image"} ->
         SendBinary(base, responseData, doc, assetFiles)
    [] endpoint.responseType = "redirect" ->
         [base EXCEPT !.status = 302,
                      !.location = IF responseData.redirectUrl # "" THEN responseData.redirectUrl
                                   ELSE IF responseData.url # "" THEN responseData.url
                                   ELSE "/"]
    [] OTHER -> [base EXCEPT !.status = 200, !.body = responseData.data]

\* lines 532-597: the reply once responseData is chosen (0 for null)
Respond(base, endpoint, chosen, params, request, doc, assetFiles) ==
  IF chosen = 0
  THEN [base EXCEPT !.status = 500, !.stage = "select", !.error = "No response configured"]
  ELSE Dispatch([base EXCEPT !.rule = chosen, !.stage = "dispatch"], endpoint,
                endpoint.responses[chosen], params, request, doc, assetFiles)

\* lines 508-530 after the loop made the evaluations evals: no reply when the process
\* ended inside the loop
Select(base, endpoint, params, evals, request, doc, assetFiles) ==
  IF Len(evals) > 0 /\ evals[Len(evals)].out \in {"exit", "unk"}
  THEN [base EXCEPT !.evals = evals, !.stage = evals[Len(evals)].out]
  ELSE Respond([base EXCEPT !.evals = evals], endpoint, SelectRule(endpoint.responses, evals),
               params, request, doc, assetFiles)

\* lines 461-506: missing is the position of the first missing required parameter
Validate(base, endpoint, missing, params, request, doc, assetFiles) ==
  IF missing # 0
  THEN [base EXCEPT !.status = 400, !.stage = "validate",
                    !.error = "Missing required parameter: " \o endpoint.parameters[missing].name,
                    !.source = endpoint.parameterSource]
  ELSE Select(base, endpoint, params, EvaluateRules(endpoint.responses, 1, params, request),
              request, doc, assetFiles)

\* a handler that validates the parameters before it looks at the credentials;
\* C8_StageOrder tells it apart
GuardAfterValidate(base, endpoint, denied, request, doc, assetFiles) ==
  IF ValidateParams(endpoint, request) # 0
  THEN Validate(base, endpoint, ValidateParams(endpoint, request),
                CollectParams(endpoint, request), request, doc, assetFiles)
  ELSE IF denied # ""
  THEN [base EXCEPT !.status = 401, !.stage = "guard", !.error = denied]
  ELSE Validate(base, endpoint, 0, CollectParams(endpoint, request), request, doc, assetFiles)

\* lines 448-459: denied is the error of the access guard, "" when the request passes
Guard(base, endpoint, denied, request, doc, assetFiles) ==
  IF denied # ""
  THEN [base EXCEPT !.status = 401, !.stage = "guard", !.error = denied]
  ELSE Validate(base, endpoint, ValidateParams(endpoint, request),
                CollectParams(endpoint, request), request, doc, assetFiles)

\* lines 444-446: at is the position of the matched endpoint, 0 for none
Match(endpoints, at, request, doc, assetFiles) ==
  IF at = 0
  THEN [BlankReply(request) EXCEPT !.status = 404, !.stage = "match",
                                   !.error = "Endpoint not found"]
  ELSE Guard([BlankReply(request) EXCEPT !.endpoint = at], endpoints[at],
             AccessGuard(endpoints[at], request), request, doc, assetFiles)

\* the handler of fastify.all('/*'), lines 426-598, on the endpoints it loaded
Handle(endpoints, request, doc, assetFiles) ==
  IF SkipAdmin(RequestPath(request.url))
  THEN [BlankReply(request) EXCEPT !.status = 404, !.stage = "skip", !.error = "Not found"]
  ELSE Match(endpoints, FindEndpoint(endpoints, RequestPath(request.url), request.method),
             request, doc, assetFiles)

(***************************************************************************)
(* The state machine.  A dynamic request is one step: the handler runs     *)
(* without awaiting anything between reading the document and replying.    *)
(***************************************************************************)
\* one request through fastify.all('/*'), taken when the connection carries no other
\* reply: loadEndpoints (line 435) may create the document, everything else only reads
DynamicRequest(request) ==
  LET loaded == loadEndpoints(file)
      skipped == SkipAdmin(RequestPath(request.url))
  IN /\ resp.stage = "idle"
     /\ resp' = Handle(loaded.list, request, loaded.file, assets)
     /\ file' = IF skipped THEN file ELSE loaded.file
     /\ UNCHANGED <<assets, adm, uuids, exported, config, procVars>>

\* a request: what Fastify hands to the handler.  query is the parsed query string of
\* url, headers has lower-cased names, body is the parsed JSON object ({} when absent)
Request(method, url, query, headers, body, clock) ==
  [method |-> method, url |-> url, query |-> query, headers |-> headers, body |-> body,
   clock |-> clock]

KV(k, v) == [k |-> k, v |-> v]

T0 == "2026-01-01T00:00:00.000Z"

NoRequest == Request("", "", <<>>, <<>>, <<>>, <<T0, T0, T0>>)

\* all sequences over set S of length at most n
SeqsUpTo(S, n) == UNION {[1..k -> S] : k \in 0..n}

Idle == [BlankReply(NoRequest) EXCEPT !.stage = "idle"]

\* the reply has gone out: the connection is free for the next request
ReplySent ==
  /\ resp.stage # "idle"
  /\ resp' = Idle
  /\ UNCHANGED <<file, assets, adm, uuids, exported, config, procVars>>

(***************************************************************************)
(* config.json (config/configManager.js) and the sessions of the auth      *)
(* plugin (plugins/auth.js).  config.json is one file shared by all worker *)
(* processes; every worker process has a session map of its own.  Time is  *)
(* counted in hours.  sessionSecret is left out: no code reads it.         *)
(***************************************************************************)
Scalability(workers, maxConnections, connectionTimeout, keepAliveTimeout) ==
  [workers |-> workers, maxConnections |-> maxConnections,
   connectionTimeout |-> connectionTimeout, keepAliveTimeout |-> keepAliveTimeout]

\* port is not part of the defaults: Undef stands for the absent field
defaultConfig ==
  [adminPasswordHash |-> Null,
   scalability |-> Scalability(Num(1), Num(1000), Num(30000), Num(5000)),
   logLevel |-> "info", port |-> Undef]

MissingConfig == [state |-> "missing", config |-> defaultConfig]
CorruptConfig == [state |-> "corrupt", config |-> defaultConfig]

\* a number after JSON.stringify and JSON.parse: NaN is written as null
ThroughJson(v) == IF v.t = "nan" THEN Null ELSE v

\* save(config): the file after fs.writeFileSync(CONFIG_FILE, JSON.stringify(config))
save(c) ==
  [state |-> "ok",
   config |-> [c EXCEPT !.scalability = [k \in DOMAIN c.scalability |->
                                           ThroughJson(c.scalability[k])],
                        !.port = ThroughJson(c.port)]]

\* load(): the configuration returned and the file afterwards; a missing file is written
\* with the defaults, an unreadable one is left alone and the defaults are returned
load(doc) ==
  IF doc.state = "missing" THEN [config |-> defaultConfig, file |-> save(defaultConfig)]
  ELSE IF doc.state = "corrupt" THEN [config |-> defaultConfig, file |-> doc]
  ELSE [config |-> doc.config, file |-> doc]

\* the PBKDF2 digest of a password under a salt: a text that differs for different
\* passwords or salts (passwords and salts hold neither ":" nor "/")
Digest(password, salt) == password \o "/" \o salt

\* hashPassword(password, salt).combined
hashPassword(password, salt) == salt \o ":" \o Digest(password, salt)

\* the values crypto.randomBytes(16) is drawn from
Salts == {"a1", "b2"}

\* verifyPassword: combined.split(':') gives the salt and the stored digest
verifyPassword(password, combined) ==
  LET i == FindFrom(combined, ":", 1)
      rest == SubSeq(combined, i + 1, Len(combined))
      j == FindFrom(rest, ":", 1)
      storedHash == IF j = 0 THEN rest ELSE SubSeq(rest, 1, j - 1)
  IN i > 0 /\ Digest(password, SubSeq(combined, 1, i - 1)) = storedHash

\* isSetupComplete on a loaded configuration
isSetupComplete(c) == Truthy(c.adminPasswordHash)

SESSION_TTL == 24

\* the n-th value generateSessionToken() returns
Token(n) == "t" \o NatToStr(n)

\* validateSession on the session map of a worker: token -> expiresAt
validateSession(map, token, now) ==
  /\ token # ""
  /\ token \in DOMAIN map
  /\ ~(now > map[token])

\* sessions.delete(token)
Forget(map, token) == [t \in DOMAIN map \ {token} |-> map[t]]

\* the session map after validateSession: an expired session is deleted
Validated(map, token, now) ==
  IF token # "" /\ token \in DOMAIN map /\ now > map[token] THEN Forget(map, token)
  ELSE map

\* sessions.set(token, {createdAt, expiresAt})
Remember(map, token, now) ==
  [t \in DOMAIN map \cup {token} |-> IF t = token THEN now + SESSION_TTL ELSE map[t]]

\* parseInt of a string of decimal digits with sign, after leading blanks; NaN when no
\* digit follows
RECURSIVE DigitRunEnd(_, _)
DigitRunEnd(s, i) ==
  IF i <= Len(s) /\ Ch(s, i) \in CharsOf(Digits) THEN DigitRunEnd(s, i + 1) ELSE i - 1

RECURSIVE SkipBlanks(_)
SkipBlanks(s) == IF Len(s) > 0 /\ Ch(s, 1) = " " THEN SkipBlanks(SubSeq(s, 2, Len(s))) ELSE s

ParseDecimal(s) ==
  LET t == SkipBlanks(s)
      signed == Len(t) > 0 /\ Ch(t, 1) \in {"-", "+"}
      from == IF signed THEN 2 ELSE 1
      to == DigitRunEnd(t, from)
      magnitude == StrToNat(SubSeq(t, from, to))
  IN IF to < from THEN NaN
     ELSE IF signed /\ Ch(t, 1) = "-" THEN Num(0 - magnitude) ELSE Num(magnitude)

\* parseInt(v) of a JSON value: the value is turned into text first (radix 16 after 0x
\* is not among the inputs)
parseInt(v) ==
  CASE v.t = "str" -> ParseDecimal(v.s)
    [] v.t = "num" -> v
    [] OTHER -> NaN

\* Math.max(lo, Math.min(hi, v)): NaN when v is NaN
Clamp(lo, hi, v) ==
  IF v.t = "nan" THEN NaN
  ELSE IF v.n < lo THEN Num(lo)
  ELSE IF v.n > hi THEN Num(hi)
  ELSE v

(***************************************************************************)
(* The admin routes (routes/admin.js) over config/configManager.js.  Each  *)
(* request below carries a valid session, so that requireAuth lets it      *)
(* through, and each route runs in one step: it awaits nothing between     *)
(* reading the document and writing it.  The fields of a JSON body are the *)
(* fields of a record; a body carries only some of them.  description,     *)
(* createdAt and updatedAt are left out: no handler reads them.            *)
(***************************************************************************)
\* what an admin route answered: id is the identifier of the endpoint or asset in it
AdminReply(op, status, error, id) == [op |-> op, status |-> status, error |-> error, id |-> id]

NoAdmin == AdminReply("none", 0, "", "")

Has(body, k) == k \in DOMAIN body

\* body[k] || default for a text field, and for an array (every array is truthy)
TextOr(body, k, default) == IF Has(body, k) /\ body[k] # "" THEN body[k] ELSE default

ListOr(body, k, default) == IF Has(body, k) THEN body[k] ELSE default

\* String.prototype.toUpperCase on the ASCII letters
UpperCh(c) ==
  IF IndexIn(c, LowerLetters) > 0 THEN Ch(UpperLetters, IndexIn(c, LowerLetters)) ELSE c

RECURSIVE ToUpperCase(_)
ToUpperCase(s) ==
  IF Len(s) = 0 THEN "" ELSE UpperCh(Ch(s, 1)) \o ToUpperCase(SubSeq(s, 2, Len(s)))

\* the n-th value crypto.randomUUID() returns
UUID(n) == "u" \o NatToStr(n)

reservedPaths == {"/admin", "/api/admin", "/health"}

\* lines 124-135 of the route and createEndpoint: the stored endpoint under identifier id
NewEndpoint(id, body) ==
  Endpoint(id, body.path, ToUpperCase(body.method),
           IF Has(body, "protected") THEN body.protected ELSE FALSE,
           IF Has(body, "token") /\ Truthy(body.token) THEN body.token ELSE Null,
           TextOr(body, "parameterSource", "none"),
           ListOr(body, "parameters", <<>>),
           TextOr(body, "responseType", "json"),
           ListOr(body, "responses", <<Rule("", JObj(<<>>))>>),
           ~(Has(body, "enabled") /\ body.enabled = FALSE))

\* why the route refuses a body, "" when it accepts it (lines 109-122)
CreateRefusal(body) ==
  IF ~Has(body, "path") \/ ~Has(body, "method") THEN "Path and method are required"
  ELSE IF body.path = "" \/ body.method = "" THEN "Path and method are required"
  ELSE IF ~StartsWith(body.path, "/") THEN "Path must start with /"
  ELSE IF \E p \in reservedPaths : StartsWith(body.path, p) THEN "Path is reserved"
  ELSE ""

\* endpoints.findIndex(e => e.id === id), 0 for -1
IndexOf(list, id) ==
  IF \E i \in 1..Len(list) : list[i].id = id
  THEN CHOOSE i \in 1..Len(list) : list[i].id = id /\ \A j \in 1..(i - 1) : list[j].id # id
  ELSE 0

\* { ...endpoint, ...updates }
Merge(endpoint, updates) ==
  [k \in DOMAIN endpoint \cup DOMAIN updates |->
     IF k \in DOMAIN updates THEN updates[k] ELSE endpoint[k]]

\* endpoints.splice(index, 1)
Splice(list, index) == SubSeq(list, 1, index - 1) \o SubSeq(list, index + 1, Len(list))

\* the asset directory after fs.unlinkSync of name
Unlink(files, name) == [n \in DOMAIN files \ {name} |-> files[n]]

\* the asset directory after the loop of lines 283-288 over the entries of data.assets
WriteAssets(files, encoded) ==
  [n \in DOMAIN files \cup DOMAIN encoded |->
     IF n \in DOMAIN encoded THEN Base64Decode(encoded[n]) ELSE files[n]]

\* { ...config, adminPasswordHash: undefined, sessionSecret: undefined } as JSON
Settings(c) == [scalability |-> c.scalability, logLevel |-> c.logLevel, port |-> c.port]

\* the configuration importConfig saves: scalability and logLevel of data.config, each
\* only when it is there and truthy (lines 272-279)
Imported(c, settings) ==
  [c EXCEPT !.scalability = IF Has(settings, "scalability") THEN settings.scalability ELSE @,
            !.logLevel = IF Has(settings, "logLevel") /\ settings.logLevel # ""
                         THEN settings.logLevel ELSE @]

\* an export that leaves the asset files out; C17_RoundTripAdds tells it apart
ExportEndpointsOnly(doc, files, c) ==
  [taken |-> TRUE, config |-> Settings(c), endpoints |-> loadEndpoints(doc).list,
   assets |-> <<>>]

\* exportConfig over the loaded configuration c
Export(doc, files, c) ==
  [taken |-> TRUE, config |-> Settings(c), endpoints |-> loadEndpoints(doc).list,
   assets |-> [n \in DOMAIN files |-> Base64Encode(files[n])]]

NoExport == [taken |-> FALSE, config |-> <<>>, endpoints |-> <<>>, assets |-> <<>>]

\* the number of identifiers an instance draws is bounded by MaxCreated
MaxCreated == 2

\* POST /api/admin/endpoints
CreateEndpoint(body) ==
  IF CreateRefusal(body) # ""
  THEN /\ adm' = AdminReply("create", 400, CreateRefusal(body), "")
       /\ UNCHANGED <<file, assets, resp, uuids, exported, config, procVars>>
  ELSE /\ uuids < MaxCreated
       /\ file' = Stored(Append(loadEndpoints(file).list, NewEndpoint(UUID(uuids + 1), body)))
       /\ uuids' = uuids + 1
       /\ adm' = AdminReply("create", 200, "", UUID(uuids + 1))
       /\ UNCHANGED <<assets, resp, exported, config, procVars>>

\* PUT /api/admin/endpoints/:id
UpdateEndpoint(id, updates) ==
  LET endpoints == loadEndpoints(file).list
      index == IndexOf(endpoints, id)
  IN IF index = 0
     THEN /\ adm' = AdminReply("update", 404, "Endpoint not found", "")
          /\ file' = loadEndpoints(file).file
          /\ UNCHANGED <<assets, resp, uuids, exported, config, procVars>>
     ELSE /\ file' = Stored([endpoints EXCEPT ![index] = Merge(endpoints[index], updates)])
          /\ adm' = AdminReply("update", 200, "", Merge(endpoints[index], updates).id)
          /\ UNCHANGED <<assets, resp, uuids, exported, config, procVars>>

\* DELETE /api/admin/endpoints/:id
DeleteEndpoint(id) ==
  LET endpoints == loadEndpoints(file).list
      index == IndexOf(endpoints, id)
  IN IF index = 0
     THEN /\ adm' = AdminReply("delete", 404, "Endpoint not found", "")
          /\ file' = loadEndpoints(file).file
          /\ UNCHANGED <<assets, resp, uuids, exported, config, procVars>>
     ELSE /\ file' = Stored(Splice(endpoints, index))
          /\ adm' = AdminReply("delete", 200, "", id)
          /\ UNCHANGED <<assets, resp, uuids, exported, config, procVars>>

\* DELETE /api/admin/assets/:id
DeleteAsset(assetId) ==
  IF getAsset(DOMAIN assets, assetId) = ""
  THEN /\ adm' = AdminReply("unlink", 404, "Asset not found", "")
       /\ UNCHANGED <<file, assets, resp, uuids, exported, config, procVars>>
  ELSE /\ assets' = Unlink(assets, getAsset(DOMAIN assets, assetId))
       /\ adm' = AdminReply("unlink", 200, "", assetId)
       /\ UNCHANGED <<file, resp, uuids, exported, config, procVars>>

\* GET /api/admin/export: the operator keeps the document that was sent
ExportConfig ==
  /\ exported' = Export(file, assets, load(config).config)
  /\ file' = loadEndpoints(file).file
  /\ config' = load(config).file
  /\ adm' = AdminReply("export", 200, "", "")
  /\ UNCHANGED <<assets, resp, uuids, procVars>>

\* POST /api/admin/import with body data
ImportConfig(data) ==
  IF ~Has(data, "endpoints") /\ ~Has(data, "config")
  THEN /\ adm' = AdminReply("import", 400, "Invalid configuration format", "")
       /\ UNCHANGED <<file, assets, resp, uuids, exported, config, procVars>>
  ELSE /\ file' = IF Has(data, "endpoints") THEN Stored(data.endpoints) ELSE file
       /\ assets' = IF Has(data, "assets") THEN WriteAssets(assets, data.assets) ELSE assets
       /\ config' = IF Has(data, "config")
                    THEN save(Imported(load(config).config, data.config))
                    ELSE config
       /\ adm' = AdminReply("import", 200, "", "")
       /\ UNCHANGED <<resp, uuids, exported, procVars>>

\* the body the operator sends to import the export they kept
ExportedBody ==
  [config |-> exported.config, endpoints |-> exported.endpoints, assets |-> exported.assets]

\* the worker processes that serve requests
Workers == {1, 2}

NoSessions == [w \in Workers |-> <<>>]

NothingHeld == [w \in Workers |-> [op |-> "none"]]

\* the primary process before it forked a worker
NoCluster ==
  [env |-> [PORT |-> Undef, MULTI_PORT |-> ""], workers |-> {}, forked |-> 0,
   signal |-> "none"]

\* the configuration once the operator has set the password up
Configured ==
  save([defaultConfig EXCEPT !.adminPasswordHash = Str(hashPassword("roarinapi", "a1"))])

\* no admin request was made yet: the password is set up, nobody is logged in
Untouched ==
  /\ adm = NoAdmin
  /\ uuids = 0
  /\ exported = NoExport
  /\ config = Configured
  /\ sessions = NoSessions
  /\ wallclock = 0
  /\ tokens = 0
  /\ held = NothingHeld
  /\ cluster = NoCluster

(***************************************************************************)
(* The auth routes and requireAuth (routes/admin.js, plugins/auth.js) in   *)
(* worker process w.  cookie is the sessionToken cookie of the request, "" *)
(* when it carries none.  The functions of the plugin are synchronous, so  *)
(* a route runs in one step of its process.                                *)
(***************************************************************************)
\* the number of session tokens an instance hands out is bounded by MaxTokens
MaxTokens == 2

\* requireAuth as preHandler of the route whose handler is Handler: after the 401 the
\* reply is sent and the handler does not run
RequireAuth(w, cookie, op, Handler) ==
  IF validateSession(sessions[w], cookie, wallclock)
  THEN Handler
  ELSE /\ adm' = AdminReply(op, 401, "Unauthorized", "")
       /\ sessions' = [sessions EXCEPT ![w] = Validated(@, cookie, wallclock)]
       /\ UNCHANGED <<file, assets, resp, uuids, exported, config, wallclock, tokens, held,
                      cluster>>

\* POST /api/admin/setup
Setup(w, body) ==
  IF isSetupComplete(load(config).config)
  THEN /\ adm' = AdminReply("setup", 400, "Setup already complete", "")
       /\ config' = load(config).file
       /\ UNCHANGED <<file, assets, resp, uuids, exported, procVars>>
  ELSE IF ~Has(body, "password") \/ Len(body.password) < 8
  THEN /\ adm' = AdminReply("setup", 400, "Password must be at least 8 characters", "")
       /\ config' = load(config).file
       /\ UNCHANGED <<file, assets, resp, uuids, exported, procVars>>
  ELSE /\ tokens < MaxTokens
       /\ \E salt \in Salts :
            config' = save([load(config).config EXCEPT
                              !.adminPasswordHash = Str(hashPassword(body.password, salt))])
       /\ sessions' = [sessions EXCEPT ![w] = Remember(@, Token(tokens + 1), wallclock)]
       /\ tokens' = tokens + 1
       /\ adm' = AdminReply("setup", 200, "", Token(tokens + 1))
       /\ UNCHANGED <<file, assets, resp, uuids, exported, wallclock, held, cluster>>

\* POST /api/admin/login
Login(w, body) ==
  IF ~isSetupComplete(load(config).config)
       \/ ~verifyPassword(body.password, load(config).config.adminPasswordHash.s)
  THEN /\ adm' = AdminReply("login", 401, "Invalid password", "")
       /\ config' = load(config).file
       /\ UNCHANGED <<file, assets, resp, uuids, exported, procVars>>
  ELSE /\ tokens < MaxTokens
       /\ sessions' = [sessions EXCEPT ![w] = Remember(@, Token(tokens + 1), wallclock)]
       /\ tokens' = tokens + 1
       /\ adm' = AdminReply("login", 200, "", Token(tokens + 1))
       /\ UNCHANGED <<file, assets, resp, uuids, exported, config, wallclock, held, cluster>>

\* POST /api/admin/logout
Logout(w, cookie) ==
  /\ sessions' = [sessions EXCEPT ![w] = IF cookie # "" THEN Forget(@, cookie) ELSE @]
  /\ adm' = AdminReply("logout", 200, "", cookie)
  /\ UNCHANGED <<file, assets, resp, uuids, exported, config, wallclock, tokens, held, cluster>>

\* the handler of POST /api/admin/change-password
ChangePassword(w, body) ==
  IF ~Has(body, "newPassword") \/ Len(body.newPassword) < 8
  THEN /\ adm' = AdminReply("password", 400, "New password must be at least 8 characters", "")
       /\ UNCHANGED <<file, assets, resp, uuids, exported, config, procVars>>
  ELSE IF ~isSetupComplete(load(config).config)
            \/ ~verifyPassword(body.currentPassword, load(config).config.adminPasswordHash.s)
  THEN /\ adm' = AdminReply("password", 401, "Current password is incorrect", "")
       /\ config' = load(config).file
       /\ UNCHANGED <<file, assets, resp, uuids, exported, procVars>>
  ELSE /\ \E salt \in Salts :
            config' = save([load(config).config EXCEPT
                              !.adminPasswordHash = Str(hashPassword(body.newPassword, salt))])
       /\ sessions' = [sessions EXCEPT ![w] = <<>>]
       /\ adm' = AdminReply("password", 200, "", "")
       /\ UNCHANGED <<file, assets, resp, uuids, exported, wallclock, tokens, held, cluster>>

\* the updates object of PUT /api/admin/scalability (lines 195-199): a field of the body
\* that is not undefined is parsed, workers and maxConnections are clamped as well
ScalabilityUpdates(body) ==
  [k \in DOMAIN body \cap {"workers", "maxConnections", "connectionTimeout", "keepAliveTimeout"}
     |-> CASE k = "workers" -> Clamp(1, 16, parseInt(body[k]))
           [] k = "maxConnections" -> Clamp(100, 10000, parseInt(body[k]))
           [] OTHER -> parseInt(body[k])]

\* updateScalability(settings) on the loaded configuration c
updateScalability(c, settings) == [c EXCEPT !.scalability = Merge(@, settings)]

\* the handler of PUT /api/admin/scalability
PutScalability(body) ==
  /\ config' = save(updateScalability(load(config).config, ScalabilityUpdates(body)))
  /\ adm' = AdminReply("scalability", 200, "", "")
  /\ UNCHANGED <<file, assets, resp, uuids, exported, procVars>>

\* !port || port < 1024 || port > 65535: a text that is not a number compares false
PortRefused(port) ==
  \/ ~Truthy(port)
  \/ port.t = "num" /\ (port.n < 1024 \/ port.n > 65535)
  \/ port.t = "str" /\ IsDigitStr(port.s)
       /\ (StrToNat(port.s) < 1024 \/ StrToNat(port.s) > 65535)

\* the handler of POST /api/admin/server-config
PostServerConfig(body) ==
  IF ~Has(body, "port") \/ PortRefused(body.port)
  THEN /\ adm' = AdminReply("port", 400, "Port must be between 1024 and 65535", "")
       /\ UNCHANGED <<file, assets, resp, uuids, exported, config, procVars>>
  ELSE /\ config' = save([load(config).config EXCEPT !.port = parseInt(body.port)])
       /\ adm' = AdminReply("port", 200, "", "")
       /\ UNCHANGED <<file, assets, resp, uuids, exported, procVars>>

\* the handler of GET /api/admin/endpoints
ListEndpoints ==
  /\ file' = loadEndpoints(file).file
  /\ adm' = AdminReply("list", 200, "", "")
  /\ UNCHANGED <<assets, resp, uuids, exported, config, procVars>>

\* an hour hand that moves in steps of TickHours up to MaxClock
TickHours == 12

MaxClock == 36

Tick ==
  /\ wallclock + TickHours <= MaxClock
  /\ wallclock' = wallclock + TickHours
  /\ UNCHANGED <<file, assets, resp, adm, uuids, exported, config, sessions, tokens, held,
                 cluster>>

(***************************************************************************)
(* Spec: matching, the access guard, parameter validation and dispatch,    *)
(* over registries of at most MaxEndpoints endpoints of PipelineEndpoints. *)
(***************************************************************************)
MaxEndpoints == 2

Secret == "tok"

PipelineEndpoints ==
  { Endpoint("e1", "/a", "GET", FALSE, Null, "none", <<>>, "json",
             <<Rule("", JStr("plain"))>>, TRUE),
    Endpoint("e2", "/a", "ANY", TRUE, Str(Secret), "query", <<Param("lang", TRUE)>>, "json",
             <<Rule("query.lang == 'fr'", JStr("Bonjour")), Rule("", JStr("Hello"))>>, TRUE),
    Endpoint("e3", "/a", "GET", FALSE, Null, "none", <<>>, "json",
             <<Rule("", JStr("disabled"))>>, FALSE),
    Endpoint("e4", "/b", "GET", TRUE, Str(Secret), "header",
             <<Param("X-Opt", FALSE), Param("X-Api-Key", TRUE)>>, "text",
             <<[Rule("headers.x-opt == 'o'", JAbsent) EXCEPT !.text = "opt"],
               [Rule("", JAbsent) EXCEPT !.text = "key {{headers.X-Api-Key}}"]>>, TRUE),
    Endpoint("e5", "/b", "POST", FALSE, Null, "body",
             <<Param("name", TRUE), Param("age", TRUE)>>, "json",
             <<Rule("body.age > 17", JStr("adult")), Rule("body.age >= 0", JStr("minor"))>>, TRUE),
    Endpoint("e6", "/b", "ANY", TRUE, Str(Secret), "mixed", <<Param("Id", TRUE)>>, "redirect",
             <<[Rule("", JAbsent) EXCEPT !.redirectUrl = "/a"]>>, TRUE),
    Endpoint("e7", "/a", "POST", FALSE, Null, "query", <<>>, "image",
             <<[Rule("query.lang == 'fr'", JAbsent) EXCEPT !.assetPath = "gone.png"],
               [Rule("", JAbsent) EXCEPT !.assetPath = "logo.png", !.fileName = "logo.png"]>>,
             TRUE) }

Registries == {Missing, Corrupt} \cup {Stored(l) : l \in SeqsUpTo(PipelineEndpoints, MaxEndpoints)}

Methods == {"GET", "POST"}

\* request targets: the raw url and the query object parsed from it
Targets ==
  { [url |-> "/a", query |-> <<>>],
    [url |-> "/a?lang=fr", query |-> <<KV("lang", Str("fr"))>>],
    [url |-> "/a?lang=", query |-> <<KV("lang", Str(""))>>],
    [url |-> "/b", query |-> <<>>],
    [url |-> "/b?Id=7", query |-> <<KV("Id", Str("7"))>>],
    [url |-> "/ping", query |-> <<>>],
    [url |-> "/health", query |-> <<>>],
    [url |-> "/admin/x", query |-> <<>>] }

HeaderSets ==
  { <<>>,
    <<KV("authorization", Str("Bearer " \o Secret))>>,
    <<KV("authorization", Str("Bearer nope"))>>,
    <<KV("authorization", Str("Bearer " \o Secret)), KV("x-api-key", Str("k"))>>,
    <<KV("authorization", Str("Bearer " \o Secret)), KV("x-api-key", Str("")), KV("id", Str("9"))>>,
    <<KV("authorization", Str("Bearer " \o Secret)), KV("x-api-key", Str("k")), KV("x-opt", Str("o"))>> }

Bodies ==
  { <<>>,
    <<KV("name", Str("n")), KV("age", Num(30))>>,
    <<KV("name", Null), KV("age", Num(0))>>,
    <<KV("age", Num(5)), KV("Id", Str("3"))>> }

Requests ==
  { Request(m, t.url, t.query, h, b, <<T0, T0, T0>>) :
      m \in Methods, t \in Targets, h \in HeaderSets, b \in Bodies }

\* the asset directory holds one uploaded file
InitialAssets == [n \in {"logo.png"} |-> <<137, 80>>]

Init ==
  /\ file \in Registries
  /\ assets = InitialAssets
  /\ resp = Idle
  /\ Untouched

Next == (\E r \in Requests : DynamicRequest(r)) \/ ReplySent

Spec == Init /\ [][Next]_vars

\* every evaluation the handler made stayed inside the modelled part of JavaScript
Modelled == resp.stage # "unk"

(***************************************************************************)
(* Properties of the pipeline.  They read the reply in resp together with  *)
(* the request it answers (resp.req) and the registry the handler loaded.  *)
(***************************************************************************)
\* the registry the handler of the last request worked on
Registry == loadEndpoints(file).list

Answered == resp.stage \notin {"idle", "skip"}

PathOf(request) == RequestPath(request.url)

\* positions of the endpoints a request is entitled to: enabled, same path, same method or ANY
Candidates(request) ==
  {i \in 1..Len(Registry) :
     /\ Registry[i].enabled
     /\ Registry[i].path = PathOf(request)
     /\ Registry[i].method \in {request.method, "ANY"}}

Matched == Registry[resp.endpoint]

PastMatch == Answered /\ resp.stage # "match"

AuthorizationOf(request) == Get(request.headers, "authorization")

\* the request carries "Authorization: Bearer t" with t other than the stored token
WrongBearer(request, token) ==
  /\ AuthorizationOf(request).t = "str"
  /\ StartsWith(AuthorizationOf(request).s, "Bearer ")
  /\ Str(SubSeq(AuthorizationOf(request).s, 8, Len(AuthorizationOf(request).s))) # token

\* C2: on a protected endpoint a request without Authorization header, or with a bearer
\* token other than the stored one, is answered 401 whatever else it carries
C2_BadTokenIs401 ==
  (PastMatch /\ Matched.protected
     /\ (AuthorizationOf(resp.req) = Undef \/ WrongBearer(resp.req, Matched.token)))
    => resp.status = 401 /\ resp.stage = "guard"

\* a wrong token is answered 401 although a required parameter is missing as well
C2_Witness ==
  /\ PastMatch
  /\ Matched.protected
  /\ WrongBearer(resp.req, Matched.token)
  /\ resp.status = 401
  /\ resp.error = "Invalid token"
  /\ ValidateParams(Matched, resp.req) # 0

\* the value of a declared parameter, per source: query, lower-cased header, body;
\* mixed takes query, else the lower-cased header, else body
DeclaredValue(source, request, name) ==
  CASE source = "query" -> Get(request.query, name)
    [] source = "header" -> Get(request.headers, ToLowerCase(name))
    [] source = "body" -> Get(request.body, name)
    [] source = "mixed" ->
         IF Truthy(Get(request.query, name)) THEN Get(request.query, name)
         ELSE IF Truthy(Get(request.headers, ToLowerCase(name)))
         THEN Get(request.headers, ToLowerCase(name))
         ELSE Get(request.body, name)

Empty(v) == v = Undef \/ v = Null \/ v = Str("")

\* positions of the required parameters of the matched endpoint the request lacks
Lacking ==
  {i \in 1..Len(Matched.parameters) :
     /\ Matched.parameters[i].required
     /\ Empty(DeclaredValue(Matched.parameterSource, resp.req, Matched.parameters[i].name))}

PastGuard == PastMatch /\ resp.stage # "guard"

Sourced == Matched.parameterSource \in {"query", "header", "body", "mixed"}

NamesParameter(i) ==
  /\ resp.status = 400
  /\ resp.error = "Missing required parameter: " \o Matched.parameters[i].name
  /\ resp.source = Matched.parameterSource

FailsMatch == FindEndpoint(Registry, PathOf(resp.req), resp.req.method) = 0
FailsGuard == AccessGuard(Matched, resp.req) # ""
FailsValidation == ValidateParams(Matched, resp.req) # 0

\* the reply has the status of the earliest stage the request fails
EarliestFailure ==
  /\ FailsMatch => resp.status = 404 /\ resp.stage = "match"
  /\ (~FailsMatch /\ FailsGuard) => resp.status = 401 /\ resp.stage = "guard"
  /\ (~FailsMatch /\ ~FailsGuard /\ FailsValidation)
       => resp.status = 400 /\ resp.stage = "validate"
  /\ (~FailsMatch /\ ~FailsGuard /\ ~FailsValidation)
       => resp.stage \notin {"match", "guard", "validate"}

\* C8 as the specification states it: a reply of 404, 401 or 400 has the status of the
\* earliest failing stage and no rule condition was evaluated for it
C8_NoConditionBeforeError ==
  Answered =>
    /\ EarliestFailure
    /\ resp.status \in {404, 401, 400} => resp.evals = <<>>

\* C8: the stages run in the order match, access guard, validation, condition
\* evaluation, dispatch: the reply has the status of the earliest failing stage, and no
\* condition is evaluated for a reply sent by the matcher (404), the guard (401) or the
\* validation (400); dispatch sends its 404 for a missing asset after the evaluation
C8_StageOrder ==
  Answered =>
    /\ EarliestFailure
    /\ resp.stage \in {"match", "guard", "validate"} => resp.evals = <<>> /\ resp.rule = 0
    /\ (resp.status \in {401, 400} \/ (resp.status = 404 /\ resp.stage # "dispatch"))
         => resp.evals = <<>>

\* a request without credentials and without its required parameter, on an endpoint
\* with a conditioned rule: 401, and nothing was evaluated
C8_Witness ==
  /\ PastMatch
  /\ resp.status = 401
  /\ resp.error = "Authorization required"
  /\ FailsValidation
  /\ \E i \in 1..Len(Matched.responses) : Matched.responses[i].condition # ""
  /\ resp.evals = <<>>

\* dispatch answers 404 for a missing asset after a condition was evaluated
C8_LateNotFound ==
  /\ resp.status = 404
  /\ resp.stage = "dispatch"
  /\ resp.evals # <<>>

(***************************************************************************)
(* SpecCond: condition evaluation and rule selection.  The registry holds  *)
(* one JSON endpoint /greet with query parameter lang and at most MaxRules *)
(* rules of RuleCatalogue; the requests carry the lang values of           *)
(* LangTargets, among them values with quotes and with calls.              *)
(***************************************************************************)
MaxRules == 2

Bonjour == JObj(<<KV("msg", JStr("Bonjour"))>>)
Hello == JObj(<<KV("msg", JStr("Hello"))>>)

RuleCatalogue ==
  { Rule("query.lang == 'fr'", Bonjour),
    Rule("", Hello),
    Rule("", JObj(<<KV("msg", JStr("Hi"))>>)),
    Rule("query.lang != 'fr' && body.n > 3", JObj(<<KV("msg", JStr("big"))>>)),
    Rule("query.lang == 'fr", JObj(<<KV("msg", JStr("open quote"))>>)),
    Rule("query.lang + 1 == 2", JObj(<<KV("msg", JStr("plus"))>>)),
    Rule("missing() == 1", JObj(<<KV("msg", JStr("raises"))>>)),
    Rule("process.exit()", JObj(<<KV("msg", JStr("exit"))>>)) }

Greet(required, responses) ==
  Endpoint("g", "/greet", "GET", FALSE, Null, "query", <<Param("lang", required)>>, "json",
           responses, TRUE)

\* the endpoint of the specification's example
GreetExample == Greet(TRUE, <<Rule("query.lang == 'fr'", Bonjour), Rule("", Hello)>>)

CondRegistries ==
  {Stored(<<Greet(required, rules)>>) :
     required \in BOOLEAN, rules \in SeqsUpTo(RuleCatalogue, MaxRules)}

\* the raw url and the lang value the query-string parser decodes from it
LangTargets ==
  { [url |-> "/greet", query |-> <<>>],
    [url |-> "/greet?lang=", query |-> <<KV("lang", Str(""))>>],
    [url |-> "/greet?lang=fr", query |-> <<KV("lang", Str("fr"))>>],
    [url |-> "/greet?lang=de", query |-> <<KV("lang", Str("de"))>>],
    [url |-> "/greet?lang=FR", query |-> <<KV("lang", Str("FR"))>>],
    [url |-> "/greet?lang=fr-CA", query |-> <<KV("lang", Str("fr-CA"))>>],
    [url |-> "/greet?lang=d%22e", query |-> <<KV("lang", Str("d\"e"))>>],
    [url |-> "/greet?lang=de%22%20%7C%7C%20%22x",
     query |-> <<KV("lang", Str("de\" || \"x"))>>],
    [url |-> "/greet?lang=%22%20%7C%7C%20process.exit()%20%7C%7C%20%22",
     query |-> <<KV("lang", Str("\" || process.exit() || \""))>>] }

CondBodies == {<<>>, <<KV("n", Num(5))>>}

CondRequests ==
  {Request("GET", t.url, t.query, <<>>, b, <<T0, T0, T0>>) : t \in LangTargets, b \in CondBodies}

InitCond ==
  /\ file \in CondRegistries
  /\ assets = InitialAssets
  /\ resp = Idle
  /\ Untouched

NextCond == (\E r \in CondRequests : DynamicRequest(r)) \/ ReplySent

SpecCond == InitCond /\ [][NextCond]_vars

(***************************************************************************)
(* Properties of condition evaluation and rule selection                   *)
(***************************************************************************)
LangOf(request) == Get(request.query, "lang")

\* C4: on the example endpoint a request is answered with A (Bonjour) exactly when its
\* lang value is fr, with B (Hello) for every other non-empty value, whatever its
\* characters, and with 400 when lang is absent or empty
C4_GreetByLang ==
  (Answered /\ Registry = <<GreetExample>>) =>
    CASE LangOf(resp.req) \in {Undef, Str("")} -> resp.status = 400
      [] LangOf(resp.req) = Str("fr") -> resp.status = 200 /\ resp.body = Bonjour
      [] OTHER -> resp.status = 200 /\ resp.body = Hello

\* the request reached rule selection on an endpoint with rules
Selecting == PastGuard /\ resp.stage # "validate" /\ Len(Matched.responses) > 0

\* rule i has a condition and the condition evaluates truthy for the request
Holds(i) ==
  /\ Matched.responses[i].condition # ""
  /\ evaluateCondition(Matched.responses[i].condition, CollectParams(Matched, resp.req),
                       resp.req).out = "true"

First(S) == CHOOSE i \in S : \A j \in S : i <= j

\* the rule the specification selects
DeclaredChoice ==
  LET rules == 1..Len(Matched.responses)
      holding == {i \in rules : Holds(i)}
      plain == {i \in rules : Matched.responses[i].condition = ""}
  IN IF holding # {} THEN First(holding)
     ELSE IF plain # {} THEN First(plain)
     ELSE 1

\* C5: selection returns exactly one rule of a non-empty list: the first rule whose
\* condition evaluates truthy, no rule after it being evaluated; else the first rule
\* without condition; else the first rule
C5_SelectsOneRule ==
  Selecting =>
    /\ resp.rule = DeclaredChoice
    /\ \A k \in 1..Len(resp.evals) : resp.evals[k].rule <= DeclaredChoice \/ ~Holds(DeclaredChoice)

\* the rules after rule i that have a condition
Conditioned(i) ==
  {j \in (i + 1)..Len(Matched.responses) : Matched.responses[j].condition # ""}

\* C6: condition evaluation never fails the request: a condition that is malformed,
\* fails the safelist or raises counts as not matching, the rules after it are still
\* considered, and the reply is the response of one of the rules of the endpoint
C6_ConditionNeverFails ==
  Selecting =>
    /\ resp.status = 200
    /\ resp.rule \in 1..Len(Matched.responses)
    /\ resp.body = Matched.responses[resp.rule].data
    /\ \A k \in 1..Len(resp.evals) :
         resp.evals[k].out # "true" =>
           IF Conditioned(resp.evals[k].rule) = {} THEN k = Len(resp.evals)
           ELSE /\ k < Len(resp.evals)
                /\ resp.evals[k + 1].rule = First(Conditioned(resp.evals[k].rule))

\* the safelist as the specification gives it
DeclaredSafelist == Whitespace \cup CharsOf(Digits) \cup CharsOf("\"'=!<>&|()")

\* the syntax tree holds a call or a member access
RECURSIVE Calls(_)
Calls(ast) ==
  CASE ast.k \in {"call", "mem"} -> TRUE
    [] ast.k = "not" -> Calls(ast.a)
    [] ast.k = "bin" -> Calls(ast.l) \/ Calls(ast.r)
    [] OTHER -> FALSE

\* the text is an expression of comparisons, connectives, parentheses and literals
Comparisons(expr) == ParseProgram(expr).st = "ok" => ~Calls(ParseProgram(expr).ast)

\* C7: a condition that, after substitution and with its identifier characters removed,
\* holds a character outside digits, quotes, whitespace and = ! < > & | ( ) never
\* reaches the evaluator; only comparisons, connectives, parentheses and literals do
C7_OnlySafelisted ==
  \A k \in 1..Len(resp.evals) :
    resp.evals[k].run =>
      /\ CharsOf(RemoveWords(resp.evals[k].expr)) \subseteq DeclaredSafelist
      /\ Comparisons(resp.evals[k].expr)

(***************************************************************************)
(* SpecTpl: template rendering.  The registry holds one text endpoint /t   *)
(* whose template is made of at most MaxPieces pieces of TemplatePieces;   *)
(* the requests carry values that themselves hold placeholder text and     *)
(* replacement patterns.                                                   *)
(***************************************************************************)
MaxPieces == 2

TemplatePieces ==
  { "{{query.a}}", "{{query.m}}", "{{headers.h}}", "{{params.a}}", "{{body.b}}", "{{body}}",
    "{{path}}", "{{method}}", "{{timestamp}}", "{{foo}}", "{{headers.content-type}}", "x=" }

Range(f) == {f[i] : i \in DOMAIN f}

RECURSIVE Concat(_)
Concat(pieces) == IF Len(pieces) = 0 THEN "" ELSE Head(pieces) \o Concat(Tail(pieces))

Templates == {Concat(pieces) : pieces \in SeqsUpTo(TemplatePieces, MaxPieces)}

TextEndpoint(text) ==
  Endpoint("t", "/t", "ANY", FALSE, Null, "query", <<>>, "text",
           <<[Rule("", JAbsent) EXCEPT !.text = text]>>, TRUE)

TplRegistries == {Stored(<<TextEndpoint(text)>>) : text \in Templates}

TplTargets ==
  { [url |-> "/t", query |-> <<>>],
    [url |-> "/t?a=v", query |-> <<KV("a", Str("v"))>>],
    [url |-> "/t?a=$$", query |-> <<KV("a", Str("$$"))>>],
    [url |-> "/t?a=%7B%7Bheaders.h%7D%7D", query |-> <<KV("a", Str("{{headers.h}}"))>>] }

\* what a request carries besides its target: headers and JSON body
TplCarried ==
  { [headers |-> <<>>, body |-> <<>>],
    [headers |-> <<KV("h", Str("H")), KV("content-type", Str("application/json"))>>,
     body |-> <<KV("b", Str("B"))>>],
    [headers |-> <<KV("h", Str("{{body.b}}"))>>, body |-> <<KV("b", Str("{{query.a}}"))>>],
    [headers |-> <<KV("h", Str("H"))>>, body |-> <<KV("b", Str("$&"))>>] }

TplRequests ==
  {Request("POST", t.url, t.query, c.headers, c.body, <<T0, T0, T0>>) :
     t \in TplTargets, c \in TplCarried}

InitTpl ==
  /\ file \in TplRegistries
  /\ assets = InitialAssets
  /\ resp = Idle
  /\ Untouched

NextTpl == (\E r \in TplRequests : DynamicRequest(r)) \/ ReplySent

SpecTpl == InitTpl /\ [][NextTpl]_vars

(***************************************************************************)
(* Properties of template rendering.  A template is read as the sequence   *)
(* of its pieces: the {{...}} groups and the text between them.            *)
(***************************************************************************)
\* the pieces of a template, in order
RECURSIVE Split(_)
Split(s) ==
  IF Len(s) = 0 THEN <<>>
  ELSE IF StartsWith(s, "{{") /\ FindFrom(s, "}}", 3) # 0
  THEN <<SubSeq(s, 1, FindFrom(s, "}}", 3) + 1)>>
       \o Split(SubSeq(s, FindFrom(s, "}}", 3) + 2, Len(s)))
  ELSE IF FindFrom(s, "{{", 2) # 0
  THEN <<SubSeq(s, 1, FindFrom(s, "{{", 2) - 1)>> \o Split(SubSeq(s, FindFrom(s, "{{", 2), Len(s)))
  ELSE <<s>>

FixedPlaceholders == {"{{timestamp}}", "{{date}}", "{{time}}", "{{method}}", "{{path}}", "{{body}}"}

RefKinds == {"query", "headers", "params", "body"}

\* the NAME of a piece {{kind.NAME}}
NameIn(piece, kind) == SubSeq(piece, Len(kind) + 4, Len(piece) - 2)

\* the piece is {{kind.NAME}} with a NAME of word characters
IsRef(piece, kind) ==
  /\ StartsWith(piece, "{{" \o kind \o ".")
  /\ Len(NameIn(piece, kind)) > 0
  /\ CharsOf(NameIn(piece, kind)) \subseteq WordChars

\* the value a piece {{kind.NAME}} refers to
Referred(piece, kind, request, params) ==
  CASE kind = "query" -> Get(request.query, NameIn(piece, kind))
    [] kind = "headers" -> Get(request.headers, ToLowerCase(NameIn(piece, kind)))
    [] kind = "params" -> Get(params, NameIn(piece, kind))
    [] kind = "body" -> Get(request.body, NameIn(piece, kind))

\* a reference whose value is missing from the request
MissingRef(piece, request, params) ==
  \E kind \in RefKinds : IsRef(piece, kind) /\ Referred(piece, kind, request, params) = Undef

\* a {{...}} group that is none of the ten placeholders
Unknown(piece) ==
  /\ StartsWith(piece, "{{")
  /\ piece \notin FixedPlaceholders
  /\ \A kind \in RefKinds : ~IsRef(piece, kind)

\* a text reply was rendered from the template of the chosen rule
Rendered == Answered /\ resp.stage = "dispatch" /\ Matched.responseType = "text"

Template == Matched.responses[resp.rule].text

Params == CollectParams(Matched, resp.req)

Output == resp.body.s

Keep(pieces, dropped) == SelectSeq(pieces, LAMBDA piece : piece \notin dropped)

MissingRefs == {piece \in Range(Split(Template)) : MissingRef(piece, resp.req, Params)}

Unknowns == {piece \in Range(Split(Template)) : Unknown(piece)}

Inserted(piece, request, params) ==
  CASE piece = "{{timestamp}}" -> request.clock[1]
    [] piece = "{{date}}" -> DatePart(request.clock[2])
    [] piece = "{{time}}" -> TimePart(request.clock[3])
    [] piece = "{{method}}" -> request.method
    [] piece = "{{path}}" -> request.url
    [] piece = "{{body}}" -> JsonStringify(request.body)
    [] IsRef(piece, "query") -> RefValue("tq", request, NameIn(piece, "query"))
    [] IsRef(piece, "headers") -> RefValue("th", request, NameIn(piece, "headers"))
    [] IsRef(piece, "params") -> RefValue("tp", [params |-> params], NameIn(piece, "params"))
    [] IsRef(piece, "body") -> RefValue("tb", request, NameIn(piece, "body"))
    [] OTHER -> piece

\* one left-to-right pass: every piece gives its text, and no inserted text is read again
RECURSIVE SinglePass(_, _, _)
SinglePass(pieces, request, params) ==
  IF Len(pieces) = 0 THEN ""
  ELSE Inserted(Head(pieces), request, params) \o SinglePass(Tail(pieces), request, params)

\* C10: rendering is a single left-to-right pass: the text inserted for a placeholder
\* (the serialized body, a query value, a header value, the request path) is not scanned
\* for placeholders, so request values holding {{...}} text are emitted verbatim
C10_SinglePass ==
  Rendered => Output = SinglePass(Split(Template), resp.req, Params)

(***************************************************************************)
(* SpecBin: the binary and image dispatch.  One endpoint GET /bin answers  *)
(* with one rule drawn from BinRules; the asset directory holds logo.png.  *)
(***************************************************************************)
\* assetPath values: a file that exists, one that does not, paths with .. and . segments
BinPaths == {"", "logo.png", "gone.png", "sub/../logo.png", "../endpoints.json",
             "../config.json", ".", ".."}

\* assetId values: the identifier logo.png was saved under, a beginning of it, another one
BinIds == {"", "logo", "lo", "nope"}

BinRules ==
  { [Rule("", JAbsent) EXCEPT !.assetPath = p, !.assetId = i, !.base64 = b,
                              !.contentType = c, !.fileName = f] :
      p \in BinPaths, i \in BinIds, b \in {"", "aGk="}, c \in {"", "image/gif"},
      f \in {"", "pic.png"} }

BinEndpoint(responseType, rule) ==
  Endpoint("b1", "/bin", "GET", FALSE, Null, "none", <<>>, responseType, <<rule>>, TRUE)

BinRegistries == {Stored(<<BinEndpoint(t, r)>>) : t \in {"binary", "image"}, r \in BinRules}

BinRequests == {Request("GET", "/bin", <<>>, <<>>, <<>>, <<T0, T0, T0>>)}

InitBin ==
  /\ file \in BinRegistries
  /\ assets = InitialAssets
  /\ resp = Idle
  /\ Untouched

NextBin == (\E r \in BinRequests : DynamicRequest(r)) \/ ReplySent

SpecBin == InitBin /\ [][NextBin]_vars

\* the rule a binary or image reply was dispatched from
Dispatched == Answered /\ resp.stage = "dispatch" /\ Matched.responseType \in {"binary", "image"}

Chosen == Matched.responses[resp.rule]

\* the file assetPath names below the asset directory
Target == PathJoin(ASSETS_DIR, Chosen.assetPath)

\* the reply carries the bytes of the regular file at path
ServedFile(path) == resp.status = 200 /\ resp.bytes.src = "file" /\ resp.bytes.of = path

\* the files saveAsset stored under identifier id: the name is the identifier followed by
\* the extension of the upload
SavedAs(id) == {f \in DOMAIN assets : SubSeq(f, 1, Len(f) - Len(ExtName(f))) = id}

\* C11: a binary or image rule is served from the first source it declares, in the order
\* assetPath, assetId, base64.  With an assetPath the reply is that file, or 404 when no
\* file is there; otherwise with an assetId the reply is the asset saved under that
\* identifier, or 404 when no asset has it; otherwise with base64 the reply is the decoded
\* bytes; with none of the three the reply is 500
C11_SourcePriority ==
  Dispatched =>
    IF Chosen.assetPath # ""
    THEN IF Target \in FilesOnDisk(file, DOMAIN assets) THEN ServedFile(Target)
         ELSE resp.status = 404
    ELSE IF Chosen.assetId # ""
    THEN IF SavedAs(Chosen.assetId) # {}
         THEN \E f \in SavedAs(Chosen.assetId) : ServedFile(Append(ASSETS_DIR, f))
         ELSE resp.status = 404
    ELSE IF Chosen.base64 # ""
    THEN /\ resp.status = 200
         /\ resp.bytes.src = "base64"
         /\ resp.bytes.data = Base64Decode(Chosen.base64)
    ELSE resp.status = 500

\* an assetPath that names a directory: the reply is neither the file nor 404
C11_DirectoryIs500 ==
  /\ Dispatched
  /\ Chosen.assetPath # ""
  /\ Target \in Directories
  /\ resp.status = 500

\* path lies below directory dir
Under(path, dir) == Len(path) > Len(dir) /\ SubSeq(path, 1, Len(dir)) = dir

\* C12: the file read and served for an assetPath always lies below the asset directory,
\* whatever .. segments the assetPath holds
C12_UnderAssetRoot ==
  Dispatched /\ Chosen.assetPath # "" /\ resp.bytes.src = "file" =>
    Under(resp.bytes.of, ASSETS_DIR)

\* C13: every binary or image reply that serves bytes carries the Content-Type the rule
\* declares, or some default when the rule declares none, and a Content-Disposition header
\* whenever the rule declares a fileName, whichever source the bytes came from
C13_DeclaredHeaders ==
  Dispatched /\ resp.status = 200 =>
    /\ IF Chosen.contentType # "" THEN resp.ctype = Chosen.contentType ELSE resp.ctype # ""
    /\ Chosen.fileName # "" => resp.disposition # ""

(***************************************************************************)
(* SpecAdmin: the admin routes that write the endpoints document, with     *)
(* dynamic requests between them.  The instance starts without document,   *)
(* with an unreadable one or with an empty list.                           *)
(***************************************************************************)
CreateBodies ==
  { [path |-> "/x", method |-> "get"],
    [path |-> "/y", method |-> "GET", responses |-> <<>>],
    [path |-> "/healthz", method |-> "GET"],
    [path |-> "x", method |-> "GET"],
    [method |-> "GET"] }

UpdateBodies == { [path |-> "/healthz"], [id |-> "u1"], [responses |-> <<>>] }

AdminIds == {"u1", "u2", "nope"}

Plain(id, path) ==
  Endpoint(id, path, "GET", FALSE, Null, "none", <<>>, "json", <<Rule("", JStr(path))>>, TRUE)

ImportBodies ==
  { [endpoints |-> <<Plain("i1", "/admin/x"), Plain("i1", "/x")>>],
    [config |-> [logLevel |-> "debug"]],
    [assets |-> [n \in {"logo.png"} |-> "aGk="]] }

AdminTargets == {"/x", "/y", "/healthz", "/health", "/admin/x", "/ping"}

AdminRequests == {Request("GET", t, <<>>, <<>>, <<>>, <<T0, T0, T0>>) : t \in AdminTargets}

InitAdmin ==
  /\ file \in {Missing, Corrupt, Stored(<<>>)}
  /\ assets = InitialAssets
  /\ resp = Idle
  /\ Untouched

NextAdmin ==
  \/ \E body \in CreateBodies : CreateEndpoint(body)
  \/ \E id \in AdminIds, updates \in UpdateBodies : UpdateEndpoint(id, updates)
  \/ \E id \in AdminIds : DeleteEndpoint(id)
  \/ \E data \in ImportBodies : ImportConfig(data)
  \/ \E r \in AdminRequests : DynamicRequest(r)
  \/ ReplySent

SpecAdmin == InitAdmin /\ [][NextAdmin]_vars

(***************************************************************************)
(* Properties of the registry under the admin routes                       *)
(***************************************************************************)
Reserved(path) == \E p \in reservedPaths : StartsWith(path, p)

\* C14: a request whose path begins with /admin, /api/admin or /health is answered 404
\* and is never handed to an endpoint of the registry, even when an enabled endpoint is
\* stored with exactly that path and method
C14_ReservedNeverDispatched ==
  resp.stage # "idle" /\ Reserved(PathOf(resp.req)) =>
    resp.status = 404 /\ resp.endpoint = 0

\* positions of the endpoints of list a request is entitled to: enabled, same path, same
\* method or ANY
Entitled(list, request) ==
  {i \in 1..Len(list) :
     /\ list[i].enabled
     /\ list[i].path = PathOf(request)
     /\ list[i].method \in {request.method, "ANY"}}

\* reply answers its request from list: by the first entitled endpoint, 404 without one
ServedFrom(list, reply) ==
  IF Entitled(list, reply.req) = {}
  THEN reply.status = 404 /\ reply.stage = "match" /\ reply.endpoint = 0
  ELSE /\ reply.endpoint \in Entitled(list, reply.req)
       /\ \A j \in Entitled(list, reply.req) : reply.endpoint <= j
       /\ reply.stage # "match"

\* a step in which the dynamic handler takes a request whose path it does not skip
Taken == resp.stage = "idle" /\ resp'.stage \notin {"idle", "skip"}

\* the last admin request was a create, update or delete that succeeded
Written == adm.status = 200 /\ adm.op \in {"create", "update", "delete"}

Handled == resp.stage = "idle" /\ resp'.stage # "idle"

PortEndpoints ==
  << Endpoint("pic", "/pic", "GET", FALSE, Null, "none", <<>>, "image",
              <<[Rule("", JAbsent) EXCEPT !.assetPath = "logo.png"]>>, TRUE),
     Endpoint("old", "/old", "GET", FALSE, Null, "none", <<>>, "binary",
              <<[Rule("", JAbsent) EXCEPT !.assetId = "logo"]>>, TRUE) >>

\* another configuration: one endpoint, and other bytes under the name logo.png
OtherBody ==
  [endpoints |-> <<Plain("i1", "/x")>>, assets |-> [n \in {"logo.png"} |-> "aGk="]]

\* the asset directory of the exporting instance
PortAssets ==
  [n \in {"logo.png", "note.txt"} |-> IF n = "logo.png" THEN <<137, 80>> ELSE <<0, 255, 7, 65>>]

PortTargets == {"/pic", "/old", "/x"}

PortRequests == {Request("GET", t, <<>>, <<>>, <<>>, <<T0, T0, T0>>) : t \in PortTargets}

InitPort ==
  /\ file \in {Missing, Corrupt, Stored(PortEndpoints)}
  /\ assets \in {<<>>, PortAssets}
  /\ resp = Idle
  /\ Untouched

NextPort ==
  \/ ExportConfig
  \/ exported.taken /\ ImportConfig(ExportedBody)
  \/ ImportConfig(OtherBody)
  \/ \E id \in {"logo", "nope"} : DeleteAsset(id)
  \/ \E id \in {"pic", "nope"} : DeleteEndpoint(id)
  \/ \E r \in PortRequests : DynamicRequest(r)
  \/ ReplySent

SpecPort == InitPort /\ [][NextPort]_vars

\* the bytes an export holds under each asset name
Decoded(encoded) == [n \in DOMAIN encoded |-> Base64Decode(encoded[n])]

\* the export sent in this step holds the endpoint list and every asset of the instance
Faithful ==
  /\ exported'.endpoints = loadEndpoints(file).list
  /\ Decoded(exported'.assets) = assets

\* after this step the instance holds the endpoint list of the export, and under every
\* asset name of the export the bytes the asset had when it was exported
Reproduced ==
  /\ file' = Stored(exported.endpoints)
  /\ \A n \in DOMAIN exported.assets :
       n \in DOMAIN assets' /\ assets'[n] = Decoded(exported.assets)[n]

\* after this step every request is answered as the exporting instance answered it
SameAnswers ==
  \A r \in PortRequests :
    Handle(file'.list, r, file', assets')
      = Handle(exported.endpoints, r, Stored(exported.endpoints), Decoded(exported.assets))

\* C17: importing an export reproduces the registry: the endpoint list and the bytes of
\* every asset are those of the export, so that every request is answered as at the export
C17_RoundTrip ==
  [][/\ ExportConfig => Faithful
     /\ exported.taken /\ ImportConfig(ExportedBody) => Reproduced /\ SameAnswers]_vars

\* C17, as the code has it: the import writes the endpoint list and the assets of the
\* export and removes nothing, so the answers are those of the export when the asset
\* directory holds no other file than the exported ones
C17_RoundTripAdds ==
  [][/\ ExportConfig => Faithful
     /\ exported.taken /\ ImportConfig(ExportedBody) =>
          /\ Reproduced
          /\ DOMAIN assets' = DOMAIN exported.assets => SameAnswers]_vars

\* the export was imported over another configuration and brought back its endpoints
\* and the bytes of its asset
C17_Witness ==
  /\ adm.op = "import" /\ adm.status = 200
  /\ exported.taken
  /\ file = Stored(exported.endpoints)
  /\ file.list = PortEndpoints
  /\ DOMAIN exported.assets = DOMAIN PortAssets
  /\ assets = PortAssets

(***************************************************************************)
(* What the admin routes store (checked under SpecAdmin)                   *)
(***************************************************************************)
\* the endpoints the document holds
StoredList == IF file.state = "ok" THEN file.list ELSE <<>>

\* C18: after any sequence of create, update, delete and import every stored endpoint has
\* a path that begins with / and does not begin with /admin, /api/admin or /health
C18_StoredPathsLegal ==
  \A i \in 1..Len(StoredList) :
    StartsWith(StoredList[i].path, "/") /\ ~Reserved(StoredList[i].path)

\* the identifiers of a list, position by position
IdsOf(list) == [i \in 1..Len(list) |-> list[i].id]

UniqueIds(list) == \A i, j \in 1..Len(list) : list[i].id = list[j].id => i = j

\* C19: no two stored endpoints share an identifier, and an update leaves the identifier
\* of every endpoint as it was
C19_IdentifiersStable ==
  [][/\ UniqueIds(StoredList')
     /\ adm'.op = "update" /\ adm'.status = 200 /\ file' # file =>
          IdsOf(StoredList') = IdsOf(loadEndpoints(file).list)]_vars

\* C20: every stored endpoint has at least one response rule, so no request is answered
\* 500 because the matched endpoint has no rule
C20_RulesNonEmpty ==
  /\ \A i \in 1..Len(StoredList) : Len(StoredList[i].responses) > 0
  /\ ~(resp.status = 500 /\ resp.error = "No response configured")

(***************************************************************************)
(* SpecGuard: the access guard against Authorization headers that hold the *)
(* stored token in other shapes than "Bearer " followed by the token.      *)
(***************************************************************************)
GuardEndpoints ==
  { Endpoint("g1", "/s", "GET", TRUE, Str(Secret), "query", <<>>, "text",
             <<[Rule("", JAbsent) EXCEPT !.text = "in"]>>, TRUE),
    Endpoint("g2", "/t", "ANY", TRUE, Str("Bearer k"), "query", <<>>, "text",
             <<[Rule("", JAbsent) EXCEPT !.text = "in"]>>, TRUE),
    Endpoint("g3", "/s", "POST", FALSE, Null, "query", <<>>, "text",
             <<[Rule("", JAbsent) EXCEPT !.text = "open"]>>, TRUE) }

GuardRegistries == {Stored(l) : l \in SeqsUpTo(GuardEndpoints, MaxEndpoints)}

\* Authorization values: absent, the scheme with the token, the bare token, the token
\* with the scheme in its middle, before a suffix, after a prefix, and wrong tokens
GuardHeaders ==
  { <<>>,
    <<KV("authorization", Str("Bearer " \o Secret))>>,
    <<KV("authorization", Str(Secret))>>,
    <<KV("authorization", Str("toBearer k"))>>,
    <<KV("authorization", Str("Basic Bearer " \o Secret))>>,
    <<KV("authorization", Str("Bearer " \o Secret \o " x"))>>,
    <<KV("authorization", Str("Bearer Bearer k"))>>,
    <<KV("authorization", Str("Bearer k"))>>,
    <<KV("authorization", Str("bearer " \o Secret))>>,
    <<KV("authorization", Str("Bearer nope"))>> }

GuardRequests ==
  { Request(m, url, <<>>, h, <<>>, <<T0, T0, T0>>) :
      m \in Methods, url \in {"/s", "/t", "/ping"}, h \in GuardHeaders }

InitGuard ==
  /\ file \in GuardRegistries
  /\ assets = InitialAssets
  /\ resp = Idle
  /\ Untouched

NextGuard == (\E r \in GuardRequests : DynamicRequest(r)) \/ ReplySent

SpecGuard == InitGuard /\ [][NextGuard]_vars

\* the request went past the access guard of a protected endpoint
PassedGuard == PastMatch /\ Matched.protected /\ resp.stage # "guard"

\* the Authorization header is "Bearer " followed by the stored token and nothing else
ExactBearer(request, token) ==
  /\ token.t = "str"
  /\ AuthorizationOf(request) = Str("Bearer " \o token.s)

\* C21: a request passes the access guard of a protected endpoint only when its
\* Authorization header is exactly "Bearer " followed by the stored token; the bare
\* token, or the token with other text around it, is answered 401
C21_ExactBearer ==
  /\ PassedGuard => ExactBearer(resp.req, Matched.token)
  /\ (PastMatch /\ Matched.protected /\ ~ExactBearer(resp.req, Matched.token))
       => resp.status = 401

(***************************************************************************)
(* SpecAuth: setup, login, logout and the routes behind requireAuth, in    *)
(* two worker processes.  The instance starts before or after the setup;   *)
(* the registry holds one endpoint and the asset directory one file.       *)
(***************************************************************************)
AuthEndpoint ==
  Endpoint("g1", "/s", "GET", FALSE, Null, "query", <<>>, "text",
           <<[Rule("", JAbsent) EXCEPT !.text = "in"]>>, TRUE)

\* the sessionToken cookie of a request: none, or a token that was or will be issued
Cookies == {""} \cup {Token(n) : n \in 1..MaxTokens}

SetupBodies == {[password |-> "roarinapi"], [password |-> "short"]}

LoginBodies == {[password |-> "roarinapi"], [password |-> "penguins2"]}

PasswordBodies ==
  { [currentPassword |-> "roarinapi", newPassword |-> "penguins2"],
    [currentPassword |-> "wrongpass", newPassword |-> "penguins2"],
    [currentPassword |-> "roarinapi", newPassword |-> "short"] }

GuardedRoutes ==
  {"list", "delete", "unlink", "scalability", "port", "export", "import", "password"}

\* a request of worker w for a route behind requireAuth
Guarded(w, cookie, route) ==
  \/ route = "list" /\ RequireAuth(w, cookie, route, ListEndpoints)
  \/ route = "delete" /\ RequireAuth(w, cookie, route, DeleteEndpoint("g1"))
  \/ route = "unlink" /\ RequireAuth(w, cookie, route, DeleteAsset("nope"))
  \/ route = "scalability"
       /\ RequireAuth(w, cookie, route, PutScalability([workers |-> Num(1)]))
  \/ route = "port" /\ RequireAuth(w, cookie, route, PostServerConfig([port |-> Num(80)]))
  \/ route = "export" /\ RequireAuth(w, cookie, route, ExportConfig)
  \/ route = "import"
       /\ RequireAuth(w, cookie, route, ImportConfig([config |-> [logLevel |-> "info"]]))
  \/ route = "password"
       /\ \E body \in PasswordBodies : RequireAuth(w, cookie, route, ChangePassword(w, body))

InitAuth ==
  /\ file = Stored(<<AuthEndpoint>>)
  /\ assets = InitialAssets
  /\ resp = Idle
  /\ adm = NoAdmin
  /\ uuids = 0
  /\ exported = NoExport
  /\ config \in {MissingConfig, Configured}
  /\ sessions = NoSessions
  /\ wallclock = 0
  /\ tokens = 0
  /\ held = NothingHeld
  /\ cluster = NoCluster

NextAuth ==
  \/ \E w \in Workers, body \in SetupBodies : Setup(w, body)
  \/ \E w \in Workers, body \in LoginBodies : Login(w, body)
  \/ \E w \in Workers, cookie \in Cookies : Logout(w, cookie)
  \/ \E w \in Workers, cookie \in Cookies, route \in GuardedRoutes : Guarded(w, cookie, route)
  \/ Tick

SpecAuth == InitAuth /\ [][NextAuth]_vars

\* some worker process takes the token for a session that has not expired
Validates(token) == \E w \in Workers : validateSession(sessions[w], token, wallclock)

\* the reply of requireAuth
Refused == adm.status = 401 /\ adm.error = "Unauthorized"

\* C22: a route behind requireAuth runs only for a request whose cookie holds a session
\* that a login issued, that was not logged out and that is not older than 24 hours;
\* every other request is answered 401 and leaves the registry, the assets and the
\* configuration as they were; a token that was logged out validates nowhere
C22_SessionRequired ==
  [][ /\ \A w \in Workers, cookie \in Cookies, route \in GuardedRoutes :
           Guarded(w, cookie, route) =>
             IF Validates(cookie)
             THEN TRUE
             ELSE Refused' /\ file' = file /\ assets' = assets /\ config' = config
      /\ \A w \in Workers, cookie \in Cookies \ {""} :
           Logout(w, cookie) => ~Validates(cookie)' ]_vars

\* the part of C22 that is about requests without session
C22_NoSessionNoEffect ==
  [][ \A w \in Workers, cookie \in Cookies, route \in GuardedRoutes :
        (Guarded(w, cookie, route) /\ ~Validates(cookie))
          => Refused' /\ file' = file /\ assets' = assets /\ config' = config ]_vars

(***************************************************************************)
(* SpecScal: PUT /api/admin/scalability with bodies that hold numbers,     *)
(* numbers as text, text that is no number, null and booleans.             *)
(***************************************************************************)
WorkerValues ==
  {Num(0), Num(4), Num(99), Str("8"), Str(" 12px"), Str("-3"), Str("abc"), Str(""), Null,
   Bool(TRUE)}

ConnectionValues == {Num(50), Num(5000), Num(20000), Str("250"), Str("many"), Null}

\* a body carries any of the four fields
ScalabilityBodies ==
  UNION { UNION { {[workers |-> w, maxConnections |-> m], [workers |-> w],
                   [maxConnections |-> m, connectionTimeout |-> Num(100)],
                   [workers |-> w, keepAliveTimeout |-> Str("-5")]}
                  : m \in ConnectionValues }
          : w \in WorkerValues } \cup {<<>>}

InitScal ==
  /\ file = Stored(<<>>)
  /\ assets = InitialAssets
  /\ resp = Idle
  /\ adm = NoAdmin
  /\ uuids = 0
  /\ exported = NoExport
  /\ config \in {MissingConfig, CorruptConfig, Configured}
  /\ sessions = NoSessions
  /\ wallclock = 0
  /\ tokens = 0
  /\ held = NothingHeld
  /\ cluster = NoCluster

NextScal == \E body \in ScalabilityBodies : PutScalability(body)

SpecScal == InitScal /\ [][NextScal]_vars

\* the scalability settings in config.json
StoredScalability == load(config).config.scalability

IntegerIn(v, lo, hi) == v.t = "num" /\ v.n \in lo..hi

\* C23: after a scalability update through the admin API, whatever the body held, the
\* stored workers is an integer in 1..16 and the stored maxConnections an integer in
\* 100..10000
C23_ScalabilityInRange ==
  (adm.op = "scalability" /\ adm.status = 200)
    => /\ IntegerIn(StoredScalability.workers, 1, 16)
       /\ IntegerIn(StoredScalability.maxConnections, 100, 10000)

\* what holds of the stored values: each is an integer of the range or null
C23_InRangeOrNull ==
  (adm.op = "scalability" /\ adm.status = 200)
    => /\ IntegerIn(StoredScalability.workers, 1, 16) \/ StoredScalability.workers = Null
       /\ IntegerIn(StoredScalability.maxConnections, 100, 10000)
            \/ StoredScalability.maxConnections = Null

(***************************************************************************)
(* cluster.js.  The primary process forks the workers and forks another    *)
(* one whenever a worker exits; a worker computes its port from the        *)
(* environment it was forked with and from config.json.  cluster.workers   *)
(* holds the workers, each under the identifier the cluster module gave it *)
(* (1, 2, ... in the order of the forks); a worker whose process ended     *)
(* stays in it as "dead" until the 'exit' event is handled.                *)
(***************************************************************************)
\* the port a worker listens on: lines 168-177 of cluster.js, then start() of server.js
\* (config.port || process.env.PORT || 4242)
WorkerPort(env, workerId, c) ==
  LET basePort == parseInt(IF Truthy(env.PORT) THEN env.PORT ELSE Num(4242))
      own == IF env.MULTI_PORT = "true" THEN Num(basePort.n + workerId) ELSE env.PORT
  IN parseInt(IF Truthy(c.port) THEN c.port ELSE IF Truthy(own) THEN own ELSE Num(4242)).n

\* the worker that cluster.fork({ WORKER_ID: workerId }) starts under identifier id while
\* config.json holds c
NewWorker(id, env, workerId, c) ==
  [id |-> id, WORKER_ID |-> workerId, state |-> "running", term |-> FALSE,
   port |-> WorkerPort(env, workerId, c)]

\* cluster.fork({ WORKER_ID: workerId }): the worker gets the next identifier
Fork(cl, workerId, c) ==
  [env |-> cl.env, forked |-> cl.forked + 1, signal |-> cl.signal,
   workers |-> cl.workers \cup {NewWorker(cl.forked + 1, cl.env, workerId, c)}]

\* the loop of lines 143-146 in a primary that has not forked yet: the worker forked
\* with WORKER_ID i gets the identifier i + 1
ForkAll(cl, numWorkers, c) ==
  [env |-> cl.env, forked |-> numWorkers, signal |-> cl.signal,
   workers |-> {NewWorker(i + 1, cl.env, i, c) : i \in 0..(numWorkers - 1)}]

\* config.scalability?.workers || 1
NumWorkers(c) == IF Truthy(c.scalability.workers) THEN c.scalability.workers.n ELSE 1

Running(cl) == {w \in cl.workers : w.state = "running"}

\* workers that will exit, or have, without the exit being handled yet
Owed(cl) == {w \in cl.workers : w.state = "dead" \/ w.term}

\* cluster.workers after process.kill('SIGTERM') on each of them
Signalled(workers) == {[w EXCEPT !.term = w.term \/ w.state = "running"] : w \in workers}

\* cluster.workers after the process of worker w ended
Ended(workers, w) == (workers \ {w}) \cup {[w EXCEPT !.state = "dead"]}

\* an instance forks at most MaxForks workers
MaxForks == 5

\* the primary process starts
StartPrimary ==
  /\ cluster.forked = 0
  /\ cluster' = ForkAll(cluster, NumWorkers(load(config).config), load(config).config)
  /\ config' = load(config).file
  /\ UNCHANGED <<file, assets, resp, adm, uuids, exported, sessions, wallclock, tokens, held>>

\* a worker process ends by itself: an uncaught error, process.exit, a kill
Crash(w) ==
  /\ w \in Running(cluster)
  /\ cluster.forked + Cardinality(Owed(cluster)) < MaxForks
  /\ cluster' = [cluster EXCEPT !.workers = Ended(cluster.workers, w)]
  /\ UNCHANGED <<file, assets, resp, adm, uuids, exported, config, sessions, wallclock, tokens,
                 held>>

\* a worker process that was sent SIGTERM ends: it installs no handler for the signal
Terminate(w) ==
  /\ w \in Running(cluster)
  /\ w.term
  /\ cluster' = [cluster EXCEPT !.workers = Ended(cluster.workers, w)]
  /\ UNCHANGED <<file, assets, resp, adm, uuids, exported, config, sessions, wallclock, tokens,
                 held>>

\* cluster.on('exit'): the worker has left cluster.workers, another one is forked with
\* WORKER_ID: worker.id
OnExit(w) ==
  /\ w \in cluster.workers
  /\ w.state = "dead"
  /\ cluster.forked < MaxForks
  /\ cluster' = [Fork(cluster, w.id, load(config).config) EXCEPT !.workers = @ \ {w}]
  /\ config' = load(config).file
  /\ UNCHANGED <<file, assets, resp, adm, uuids, exported, sessions, wallclock, tokens, held>>

\* process.on('SIGTERM') of the primary: every worker of cluster.workers is sent SIGTERM
Sigterm ==
  /\ cluster.forked > 0
  /\ cluster.signal = "none"
  /\ cluster.forked + Cardinality(cluster.workers) <= MaxForks
  /\ cluster' = [cluster EXCEPT !.signal = "SIGTERM", !.workers = Signalled(cluster.workers)]
  /\ UNCHANGED <<file, assets, resp, adm, uuids, exported, config, sessions, wallclock, tokens,
                 held>>

(***************************************************************************)
(* SpecCluster: the primary and its workers.  The instance starts with 1   *)
(* to 3 workers configured (or with the null a scalability update can      *)
(* store), with or without a configured port, in single-port or multi-port *)
(* mode.  SpecClusterFair adds that a worker that was sent SIGTERM ends    *)
(* and that the primary handles the events it is sent.                     *)
(***************************************************************************)
ClusterEnvs ==
  { [PORT |-> Undef, MULTI_PORT |-> "true"],
    [PORT |-> Str("3000"), MULTI_PORT |-> "true"],
    [PORT |-> Undef, MULTI_PORT |-> ""] }

ClusterConfigs ==
  { save([defaultConfig EXCEPT !.scalability.workers = w, !.port = p]) :
      w \in {Num(1), Num(2), Num(3), Null}, p \in {Undef, Num(8080)} }

InitCluster ==
  /\ file = Stored(<<>>)
  /\ assets = InitialAssets
  /\ resp = Idle
  /\ adm = NoAdmin
  /\ uuids = 0
  /\ exported = NoExport
  /\ config \in ClusterConfigs
  /\ sessions = NoSessions
  /\ wallclock = 0
  /\ tokens = 0
  /\ held = NothingHeld
  /\ cluster \in {[NoCluster EXCEPT !.env = env] : env \in ClusterEnvs}

NextCluster ==
  \/ StartPrimary
  \/ \E w \in cluster.workers : Crash(w)
  \/ \E w \in cluster.workers : Terminate(w)
  \/ \E w \in cluster.workers : OnExit(w)
  \/ Sigterm

SpecCluster == InitCluster /\ [][NextCluster]_vars

\* the steps that are taken whenever they can be: the primary runs its start-up code
\* and its 'exit' handler, and the operating system ends a worker that was sent SIGTERM
Scheduled ==
  \/ StartPrimary
  \/ \E w \in cluster.workers : Terminate(w)
  \/ \E w \in cluster.workers : OnExit(w)

\* nothing makes a worker crash or a SIGTERM arrive.  A behaviour takes finitely many
\* scheduled steps (forks are bounded), so fairness of their disjunction is fairness of
\* each of them
SpecClusterFair == SpecCluster /\ WF_vars(Scheduled)

ShutdownBegun == cluster.signal = "SIGTERM"

\* the part of C24 about the signal: the SIGTERM of the primary is passed on to every
\* worker that runs
C24_AllSignalled ==
  [][(~ShutdownBegun /\ ShutdownBegun')
       => \A w \in Running(cluster) : [w EXCEPT !.term = TRUE] \in cluster'.workers]_vars

\* C24: after the primary received SIGTERM every worker is sent SIGTERM, no worker is
\* forked once the shutdown has begun, and eventually no worker is running any more
C24_GracefulShutdown ==
  /\ C24_AllSignalled
  /\ [][ShutdownBegun => cluster'.forked = cluster.forked]_vars
  /\ [](ShutdownBegun => <>[](Running(cluster) = {}))

\* the liveness part of C24 alone
C24_EventuallyDown == [](ShutdownBegun => <>[](Running(cluster) = {}))

MultiPort == cluster.env.MULTI_PORT = "true"

\* basePort of line 168
BasePort == parseInt(IF Truthy(cluster.env.PORT) THEN cluster.env.PORT ELSE Num(4242)).n

\* the ports of the configured number of workers
PortRange == BasePort..(BasePort + NumWorkers(load(config).config) - 1)

\* C25: in multi-port mode the live workers listen on pairwise distinct ports inside
\* basePort..basePort+workers-1: worker i on basePort+i, a replacement on the port of
\* the worker it replaces
C25_DistinctPorts ==
  MultiPort =>
    /\ \A a, b \in Running(cluster) : a # b => a.port # b.port
    /\ \A a \in Running(cluster) : a.port \in PortRange

\* what holds of the ports: while no worker has exited and config.json names no port,
\* the worker forked with WORKER_ID i listens on basePort+i
C25_PortsAtStart ==
  (MultiPort /\ ~Truthy(load(config).config.port)
     /\ cluster.forked = NumWorkers(load(config).config))
    => /\ \A a \in cluster.workers : a.port = BasePort + a.WORKER_ID /\ a.WORKER_ID = a.id - 1
       /\ \A a \in Running(cluster) : a.port \in PortRange

\* a replacement listens on another port than the worker it replaces although
\* config.json names no port
C25_ReplacementMoved ==
  /\ MultiPort
  /\ ~Truthy(load(config).config.port)
  /\ \E a \in Running(cluster) : a.id > NumWorkers(load(config).config) /\ a.port \notin PortRange

(***************************************************************************)
(* Password changes (checked under SpecAuth)                               *)
(***************************************************************************)
StoredHash == load(config).config.adminPasswordHash

\* the step is a password change that was answered with status
PasswordChange(status) == adm'.op = "password" /\ adm'.status = status /\ adm' # adm

\* C26: after a successful password change no session token issued before validates any
\* more, in any worker; a change with a wrong current password leaves the hash and the
\* sessions as they were
C26_ChangeEndsSessions ==
  [][ /\ PasswordChange(200) => \A token \in Cookies \ {""} : ~Validates(token)'
      /\ (PasswordChange(401) /\ adm'.error = "Current password is incorrect")
           => StoredHash' = StoredHash /\ sessions' = sessions ]_vars

\* what holds: the worker that changed the password has no session left, and a wrong
\* current password changes neither the hash nor any session
C26_ChangeEndsOwnSessions ==
  [][ /\ PasswordChange(200) => \E w \in Workers : sessions'[w] = <<>> /\ sessions[w] # <<>>
      /\ (PasswordChange(401) /\ adm'.error = "Current password is incorrect")
           => StoredHash' = StoredHash /\ sessions' = sessions ]_vars

(***************************************************************************)
(* Handlers of different worker processes run at the same time.  A handler *)
(* that changes config.json loads it, changes its copy and saves the copy  *)
(* (load and save are synchronous file operations of one process, not a    *)
(* transaction): Begin is the handler up to its last load, End its save    *)
(* and reply.  held[w] is the copy worker w works on.  Every route but    *)
(* setup is behind requireAuth: the request carries a session of worker w. *)
(***************************************************************************)
\* the reply a handler sends before it saves anything, NoAdmin when it goes on
ConfigRefusal(op, body, c) ==
  CASE op = "setup" ->
         IF isSetupComplete(c) THEN AdminReply(op, 400, "Setup already complete", "")
         ELSE IF Len(body.password) < 8
         THEN AdminReply(op, 400, "Password must be at least 8 characters", "")
         ELSE NoAdmin
    [] op = "password" ->
         IF Len(body.newPassword) < 8
         THEN AdminReply(op, 400, "New password must be at least 8 characters", "")
         ELSE IF ~isSetupComplete(c) \/ ~verifyPassword(body.currentPassword, c.adminPasswordHash.s)
         THEN AdminReply(op, 401, "Current password is incorrect", "")
         ELSE NoAdmin
    [] op = "port" ->
         IF PortRefused(body.port)
         THEN AdminReply(op, 400, "Port must be between 1024 and 65535", "")
         ELSE NoAdmin
    [] OTHER -> NoAdmin

\* the configuration a handler saves, made from the copy c it loaded
ConfigWrite(op, body, c, salt) ==
  CASE op = "setup" -> [c EXCEPT !.adminPasswordHash = Str(hashPassword(body.password, salt))]
    [] op = "password" ->
         [c EXCEPT !.adminPasswordHash = Str(hashPassword(body.newPassword, salt))]
    [] op = "port" -> [c EXCEPT !.port = parseInt(body.port)]
    [] op = "scalability" -> updateScalability(c, ScalabilityUpdates(body))

\* worker w starts to handle a request: it loads config.json and replies when it refuses
BeginConfig(w, op, body) ==
  /\ held[w].op = "none"
  /\ IF op = "setup" THEN tokens < MaxTokens ELSE sessions[w] # <<>>
  /\ config' = load(config).file
  /\ IF ConfigRefusal(op, body, load(config).config) # NoAdmin
     THEN /\ adm' = ConfigRefusal(op, body, load(config).config)
          /\ UNCHANGED held
     ELSE /\ held' = [held EXCEPT ![w] = [op |-> op, body |-> body,
                                          config |-> load(config).config]]
          /\ UNCHANGED adm
  /\ UNCHANGED <<file, assets, resp, uuids, exported, sessions, wallclock, tokens, cluster>>

\* worker w saves its copy and replies
EndConfig(w) ==
  /\ held[w].op \in {"setup", "password", "port", "scalability"}
  /\ \E salt \in Salts :
       config' = save(ConfigWrite(held[w].op, held[w].body, held[w].config, salt))
  /\ adm' = AdminReply(held[w].op, 200, "", "")
  /\ held' = [held EXCEPT ![w] = [op |-> "none"]]
  /\ sessions' = [sessions EXCEPT ![w] =
                    CASE held[w].op = "setup" -> Remember(@, Token(tokens + 1), wallclock)
                      [] held[w].op = "password" -> <<>>
                      [] OTHER -> @]
  /\ tokens' = IF held[w].op = "setup" THEN tokens + 1 ELSE tokens
  /\ UNCHANGED <<file, assets, resp, uuids, exported, wallclock, cluster>>

(***************************************************************************)
(* SpecRace: two workers handle setup, password changes, port changes and  *)
(* scalability updates at the same time.                                   *)
(***************************************************************************)
ConfigRequests ==
  { [op |-> "setup", body |-> [password |-> "roarinapi"]],
    [op |-> "setup", body |-> [password |-> "penguins2"]],
    [op |-> "password",
     body |-> [currentPassword |-> "roarinapi", newPassword |-> "penguins2"]],
    [op |-> "password",
     body |-> [currentPassword |-> "wrongpass", newPassword |-> "penguins2"]],
    [op |-> "port", body |-> [port |-> Num(8080)]],
    [op |-> "scalability", body |-> [workers |-> Num(2)]] }

\* the administrator has logged in at every worker
LoggedIn == [w \in Workers |-> Remember(<<>>, Token(0), 0)]

InitRace ==
  /\ file = Stored(<<>>)
  /\ assets = InitialAssets
  /\ resp = Idle
  /\ adm = NoAdmin
  /\ uuids = 0
  /\ exported = NoExport
  /\ \/ config = MissingConfig /\ sessions = NoSessions
     \/ config = Configured /\ sessions = LoggedIn
  /\ wallclock = 0
  /\ tokens = 0
  /\ held = NothingHeld
  /\ cluster = NoCluster

NextRace ==
  \/ \E w \in Workers, r \in ConfigRequests : BeginConfig(w, r.op, r.body)
  \/ \E w \in Workers : EndConfig(w)

SpecRace == InitRace /\ [][NextRace]_vars

\* the step is the reply of route op with status
Replied(op, status) == adm'.op = op /\ adm'.status = status /\ adm' # adm

\* the password change that worker w is about to save presents the stored password
PresentsCurrent(w) ==
  /\ held[w].op = "password"
  /\ StoredHash.t = "str"
  /\ verifyPassword(held[w].body.currentPassword, StoredHash.s)

\* C27: the password is set through setup only while no hash is stored, a later setup
\* is answered 400 and leaves the hash as it is, and the hash then changes only through
\* a password change that presents the current password
C27_HashOnlyByOwner ==
  [][ /\ StoredHash' # StoredHash
           => \/ StoredHash = Null /\ Replied("setup", 200)
              \/ Replied("password", 200) /\ \E w \in Workers : EndConfig(w) /\ PresentsCurrent(w)
      /\ (Replied("setup", 200) \/ Replied("setup", 400))
           => (StoredHash # Null => (adm'.status = 400 /\ StoredHash' = StoredHash)) ]_vars

\* C27 for a save made from a copy that still carries the stored hash: such a save
\* changes the hash only as a setup without a stored hash or as a password change that
\* presents the current password
C27_FreshCopyKeepsHash ==
  [][ \A w \in Workers :
        (EndConfig(w) /\ held[w].config.adminPasswordHash = StoredHash
                      /\ StoredHash' # StoredHash)
          => \/ held[w].op = "setup" /\ StoredHash = Null
             \/ PresentsCurrent(w) ]_vars

(***************************************************************************)
(* SpecAsset: uploads, deletions and legacy assetId rules.  saveAsset      *)
(* names the file by a fresh identifier followed by the extension of the   *)
(* upload; the rules and the deletions name an identifier, a beginning of  *)
(* one, or one that was never drawn.                                       *)
(***************************************************************************)
\* path.extname(filename): from the last dot, "" without one or with a leading dot only
extname(name) ==
  LET dots == {i \in 2..Len(name) : Ch(name, i) = "."}
  IN IF dots = {} THEN ""
     ELSE SubSeq(name, CHOOSE i \in dots : \A j \in dots : j <= i, Len(name))

\* saveAsset: the asset directory after the upload under identifier assetId
saveAsset(files, assetId, filename, buffer) ==
  [n \in DOMAIN files \cup {assetId \o extname(filename)} |->
     IF n = assetId \o extname(filename) THEN buffer ELSE files[n]]

\* POST /api/admin/assets with a file
SaveAsset(filename, buffer) ==
  /\ uuids < MaxCreated
  /\ assets' = saveAsset(assets, UUID(uuids + 1), filename, buffer)
  /\ uuids' = uuids + 1
  /\ adm' = AdminReply("upload", 200, "", UUID(uuids + 1))
  /\ UNCHANGED <<file, resp, exported, config, procVars>>

Uploads == {[filename |-> "pic.png", buffer |-> <<137, 80>>],
            [filename |-> "raw", buffer |-> <<0, 255>>]}

AssetIds == {UUID(n) : n \in 1..MaxCreated} \cup {"u", "nope"}

AssetEndpoint(assetId) ==
  Endpoint("e-" \o assetId, "/" \o assetId, "GET", FALSE, Null, "none", <<>>, "binary",
           <<[Rule("", JAbsent) EXCEPT !.assetId = assetId]>>, TRUE)

\* one endpoint per identifier, in a fixed order
AssetRegistry ==
  <<AssetEndpoint("u"), AssetEndpoint("nope")>>
    \o [n \in 1..MaxCreated |-> AssetEndpoint(UUID(n))]

AssetRequests == {Request("GET", "/" \o id, <<>>, <<>>, <<>>, <<T0, T0, T0>>) : id \in AssetIds}

InitAsset ==
  /\ file = Stored(AssetRegistry)
  /\ assets = <<>>
  /\ resp = Idle
  /\ Untouched

NextAsset ==
  \/ \E u \in Uploads : SaveAsset(u.filename, u.buffer)
  \/ \E id \in AssetIds : DeleteAsset(id)
  \/ \E r \in AssetRequests : DynamicRequest(r)
  \/ ReplySent

SpecAsset == InitAsset /\ [][NextAsset]_vars

\* the reply to a rule that names assetId: the bytes of the asset saved under it, 404
\* when no asset was saved under it
ExactLookup ==
  Dispatched /\ Chosen.assetId # "" =>
    IF SavedAs(Chosen.assetId) # {}
    THEN \E f \in SavedAs(Chosen.assetId) : ServedFile(Append(ASSETS_DIR, f))
    ELSE resp.status = 404

\* the deletion of assetId in this step removes the asset saved under it and no other
\* file, and is answered 404 with every file left in place when no asset was saved under it
ExactDelete(assetId) ==
  IF SavedAs(assetId) # {}
  THEN adm'.status = 200 /\ \E f \in SavedAs(assetId) : assets' = Unlink(assets, f)
  ELSE adm'.status = 404 /\ assets' = assets

\* C30: lookup and deletion by identifier act only on the asset with exactly that
\* identifier: getAsset(id) gives the bytes of the asset saved under id and nothing when
\* no asset has that id; deleteAsset(id) removes at most that asset and, when no asset
\* has that id, answers false and leaves every file in place
C30_ExactIdentifier ==
  [][ /\ resp' # resp => ExactLookup'
      /\ \A id \in AssetIds : DeleteAsset(id) => ExactDelete(id) ]_vars

\* what lookup and deletion do: they act on the first file, in name order, whose name
\* begins with the identifier
C30_FirstWithPrefix ==
  [][ /\ (resp' # resp /\ (Dispatched /\ Chosen.assetId # "")') =>
           IF getAsset(DOMAIN assets, Chosen.assetId)' # ""
           THEN ServedFile(Append(ASSETS_DIR, getAsset(DOMAIN assets, Chosen.assetId)))'
           ELSE resp'.status = 404
      /\ \A id \in AssetIds : DeleteAsset(id) =>
           IF getAsset(DOMAIN assets, id) # ""
           THEN assets' = Unlink(assets, getAsset(DOMAIN assets, id))
           ELSE adm'.status = 404 /\ assets' = assets ]_vars

(***************************************************************************)
(* endpoints.json under several workers.  createEndpoint, updateEndpoint   *)
(* and deleteEndpoint load the list, change their copy and save it:        *)
(* BeginWrite is the handler up to its load, EndWrite its save and reply,  *)
(* held[w].loaded is the list worker w loaded and held[w].list the list it *)
(* is about to save.  writeFileSync                                        *)
(* opens the document with truncation and then writes the text: Truncate   *)
(* is the moment between the two, at which a reader finds an empty         *)
(* document.                                                               *)
(***************************************************************************)
\* worker w starts to handle a create, update or delete of the registry
BeginWrite(w, op, id, body) ==
  /\ held[w].op = "none"
  /\ IF op = "create"
     THEN IF CreateRefusal(body) # ""
          THEN /\ adm' = AdminReply("create", 400, CreateRefusal(body), "")
               /\ UNCHANGED <<file, uuids, held>>
          ELSE /\ uuids < MaxCreated
               /\ held' = [held EXCEPT ![w] =
                             [op |-> op, id |-> UUID(uuids + 1), body |-> body, pc |-> "loaded",
                              loaded |-> loadEndpoints(file).list,
                              list |-> Append(loadEndpoints(file).list,
                                              NewEndpoint(UUID(uuids + 1), body))]]
               /\ file' = loadEndpoints(file).file
               /\ uuids' = uuids + 1
               /\ UNCHANGED adm
     ELSE /\ file' = loadEndpoints(file).file
          /\ UNCHANGED uuids
          /\ IF IndexOf(loadEndpoints(file).list, id) = 0
             THEN /\ adm' = AdminReply(op, 404, "Endpoint not found", "")
                  /\ UNCHANGED held
             ELSE /\ held' = [held EXCEPT ![w] =
                                [op |-> op, id |-> id, body |-> body, pc |-> "loaded",
                                 loaded |-> loadEndpoints(file).list,
                                 list |-> IF op = "delete"
                                          THEN Splice(loadEndpoints(file).list,
                                                      IndexOf(loadEndpoints(file).list, id))
                                          ELSE [loadEndpoints(file).list EXCEPT
                                                  ![IndexOf(loadEndpoints(file).list, id)] =
                                                     Merge(@, body)]]]
                  /\ UNCHANGED adm
  /\ UNCHANGED <<assets, resp, exported, config, sessions, wallclock, tokens, cluster>>

\* writeFileSync of worker w has opened endpoints.json and written nothing yet
Truncate(w) ==
  /\ held[w].op \in {"create", "update", "delete"}
  /\ held[w].pc = "loaded"
  /\ file' = Corrupt
  /\ held' = [held EXCEPT ![w].pc = "writing"]
  /\ UNCHANGED <<assets, resp, adm, uuids, exported, config, sessions, wallclock, tokens,
                 cluster>>

\* worker w has saved its list and replies
EndWrite(w) ==
  /\ held[w].op \in {"create", "update", "delete"}
  /\ file' = Stored(held[w].list)
  /\ adm' = AdminReply(held[w].op, 200, "", held[w].id)
  /\ held' = [held EXCEPT ![w] = [op |-> "none"]]
  /\ UNCHANGED <<assets, resp, uuids, exported, config, sessions, wallclock, tokens, cluster>>

(***************************************************************************)
(* SpecWriters: two workers create, update and delete endpoints at the     *)
(* same time; every save is seen whole.                                    *)
(***************************************************************************)
WriterIds == {UUID(n) : n \in 1..MaxCreated} \cup {"nope"}

WriterRequests ==
  {[op |-> "create", id |-> "", body |-> b] :
     b \in {[path |-> "/x", method |-> "GET"], [path |-> "/admin/x", method |-> "GET"]}}
    \cup {[op |-> "update", id |-> id, body |-> [enabled |-> FALSE]] : id \in WriterIds}
    \cup {[op |-> "delete", id |-> id, body |-> <<>>] : id \in WriterIds}

InitWriters ==
  /\ file = Stored(<<>>)
  /\ assets = InitialAssets
  /\ resp = Idle
  /\ Untouched

NextWriters ==
  \/ \E w \in Workers, r \in WriterRequests : BeginWrite(w, r.op, r.id, r.body)
  \/ \E w \in Workers : EndWrite(w)

SpecWriters == InitWriters /\ [][NextWriters]_vars

\* the identifiers of a list
IdSet(list) == {list[i].id : i \in 1..Len(list)}

\* this step acknowledges operation op on endpoint id
Acknowledges(op, id) ==
  \E w \in Workers : EndWrite(w) /\ held[w].op = op /\ held[w].id = id

\* endpoint id over this step: an acknowledged create, update or delete of it is
\* reflected in the registry, it leaves the registry only through an acknowledged delete
\* of it, enters it only through an acknowledged create of it, and changes only through
\* an acknowledged update of it
NoLoss(id) ==
  /\ Acknowledges("create", id) => id \in IdSet(file'.list)
  /\ Acknowledges("delete", id) => id \notin IdSet(file'.list)
  /\ Acknowledges("update", id) =>
       /\ id \in IdSet(file'.list)
       /\ file'.list[IndexOf(file'.list, id)].enabled = FALSE
  /\ (id \in IdSet(file.list) /\ id \notin IdSet(file'.list)) => Acknowledges("delete", id)
  /\ (id \notin IdSet(file.list) /\ id \in IdSet(file'.list)) => Acknowledges("create", id)
  /\ (id \in IdSet(file.list) /\ id \in IdSet(file'.list)
        /\ file'.list[IndexOf(file'.list, id)] # file.list[IndexOf(file.list, id)])
       => Acknowledges("update", id)

\* C29: acknowledged administrative writes are not lost: after any interleaving of
\* create, update and delete through different workers, every endpoint whose creation
\* was acknowledged and that was not deleted afterwards is in the registry, and every
\* acknowledged update or delete is reflected in it
C29_NoLostWrite == [][ \A id \in WriterIds : NoLoss(id) ]_vars

\* C29 for a save made from a list that is still the stored one
C29_FreshCopyKeepsAll ==
  [][ (\E w \in Workers : EndWrite(w) /\ held[w].loaded = file.list)
        => \A id \in WriterIds : NoLoss(id) ]_vars

(***************************************************************************)
(* SpecTorn: dynamic requests while the workers write the registry.  The   *)
(* registry starts empty: the built-in defaults were removed.              *)
(***************************************************************************)
TornRequests ==
  {Request("GET", t, <<>>, <<>>, <<>>, <<T0, T0, T0>>) : t \in {"/ping", "/x"}}

NextTorn ==
  \/ \E w \in Workers, r \in WriterRequests : BeginWrite(w, r.op, r.id, r.body)
  \/ \E w \in Workers : Truncate(w)
  \/ \E w \in Workers : EndWrite(w)
  \/ \E r \in TornRequests : DynamicRequest(r)
  \/ ReplySent

SpecTorn == InitWriters /\ [][NextTorn]_vars

\* the lists whose text a worker is writing into the opened document
BeingWritten ==
  {held[w].list : w \in {v \in Workers : held[v].op # "none" /\ held[v].pc = "writing"}}

\* the lists that are the stored registry while a request is handled: the list of
\* the document (created from the defaults when it is missing), or, while the document is
\* being written, the lists being written
StoredDuring ==
  IF loadEndpoints(file).file.state = "ok" THEN {loadEndpoints(file).file.list}
  ELSE BeingWritten

\* C28: every dynamic request is matched against a list that was the stored registry at
\* some moment during the request, so an endpoint that was deleted before the request or
\* was never stored is never served, also while the document is being written or is
\* unreadable
C28_MatchedAgainstStored ==
  [][ \A r \in TornRequests :
        DynamicRequest(r) => \E list \in StoredDuring : resp' = Handle(list, r, file', assets)
    ]_vars

\* C28 while the document is readable or missing: the request is matched against the
\* list of the document
C28_ReadableIsStored ==
  [][ \A r \in TornRequests :
        (DynamicRequest(r) /\ file.state # "corrupt")
          => resp' = Handle(file'.list, r, file', assets) ]_vars

====
